---- MODULE Spec2Model ----
(***************************************************************************)
(* rpi-toolkit: the software PWM engine of rpi_pwm.h (one worker thread    *)
(* per pin, a fixed pool of slots behind one mutex) together with the part *)
(* of rpi_gpio.h it drives.  Caller threads run pwm_init_freq, pwm_write   *)
(* and pwm_stop one program step at a time; worker threads run             *)
(* pwm_thread_func one shared-memory access at a time.                     *)
(***************************************************************************)
EXTENDS Integers, Sequences, FiniteSets, TLC

(* ---- program constants ---- *)
MAX_PWM_PINS == 8
PWM_DEFAULT_FREQ_HZ == 100
PWM_DUTY_MIN == 0
PWM_DUTY_MAX == 100
GPIO_PIN_MIN == 0
GPIO_PIN_MAX == 53
LOW == 0
HIGH == 1
INPUT == 0
OUTPUT == 1
INT_MAX == 2147483647
INT_MIN == -INT_MAX - 1

(* ---- bounds of the model ---- *)
NumCallers == 2
MaxThreads == 3
MaxCalls == 4
MaxCapCalls == 3
MaxClock == 6
MaxDelay == 2
MaxHwCalls == 5

Callers == 1..NumCallers
Tids == 1..MaxThreads
Slots == 0..(MAX_PWM_PINS - 1)

(* inputs the callers draw from *)
Pins == {17, 18}
DutyInputs == {INT_MIN, -5, 50, 250, INT_MAX}
FreqInputs == {0}

VARIABLES
    pwm_pins,   \* the pool: slot -> [pin, duty, period_us, running, thread, active]
    pwm_mutex,  \* 0 when free, else the caller that holds it
    threads,    \* worker threads: tid -> [st, slot, wpc, d, period]
    gpio_map,   \* TRUE while the GPIO registers are mapped
    fsel,       \* GPFSELn: the <<pin, function>> pairs with a non-zero function
    level,      \* output latches (GPSETn / GPCLRn): the set of pins that are HIGH
    pc,         \* caller -> position in the API call it is running
    call,       \* caller -> parameters and locals of that call
    ncalls,     \* number of API calls entered so far
    ev,         \* what the last step did: who, which statement, pin, value
    clock,      \* the value millis() returns when called now
    timer,      \* a simple_timer_t: [next_expiry, interval]
    tpc,        \* position of the thread that polls the timer
    tloc,       \* locals of the timer_tick in progress: now, and the timer on entry
    tev,        \* what the last timer call did
    set_at,     \* the clock value the last timer_set read
    polls,      \* since the last timer_set: the clock value the last timer_tick
                \* read, whether every gap between calls stayed below the
                \* interval, and the number of true returns
    ts,         \* CLOCK_MONOTONIC: the struct timespec clock_gettime fills in now
    seen,       \* the last reading millis() and micros() each returned
    dpc,        \* position of the thread that calls delay_ms / delay_us
    dloc,       \* locals of the delay in progress: start, the argument, the clock at entry
    cev,        \* what the last clock or delay call did
    platform,   \* the build: "RPI" (registers through mmap) or "HOST" (mock)
    mem_fd,     \* rpi_gpio.h's descriptor: "-1", "open", or "stale" (a number already closed)
    gpio_bad,   \* TRUE while gpio_map holds MAP_FAILED
    ext,        \* the pins an external circuit drives HIGH
    inited,     \* what the last gpio_init / hpwm_init since the last gpio_cleanup / hpwm_stop returned
    pwm_map,    \* rpi_hw_pwm.h's pointer: "NULL", "mapped", "MAP_FAILED", "unmapped"
    clk_map,    \* likewise for the clock manager block
    mem_fd_hw,  \* rpi_hw_pwm.h's descriptor, as mem_fd
    pwm_regs,   \* the PWM block: [ctl, rng, dat], rng and dat per channel
    clk_regs,   \* the clock manager: [ctl, div]
    gev,        \* what the last GPIO or hardware PWM call did
    gpc,        \* "run", or "crashed" once a call has faulted
    hcalls      \* number of GPIO and hardware PWM calls made so far, where it is bounded

\* the state of simple_timer.h and of its caller
\* the monotonic clock and the callers of millis, micros, delay_ms, delay_us
cvars == <<ts, seen, dpc, dloc, cev>>

\* rpi_gpio.h's and rpi_hw_pwm.h's resources, the board, and their caller
hvars == <<platform, mem_fd, gpio_bad, ext, inited, pwm_map, clk_map, mem_fd_hw,
           pwm_regs, clk_regs, gev, gpc, hcalls>>

tvars == <<clock, timer, tpc, tloc, tev, set_at, polls, cvars, hvars>>

vars == <<pwm_pins, pwm_mutex, threads, gpio_map, fsel, level, pc, call, ncalls, ev, tvars>>

NoSlot == -1
Already == -2
NoTid == 0

ZeroSlot == [pin |-> 0, duty |-> 0, period_us |-> 0, running |-> FALSE,
             thread |-> NoTid, active |-> FALSE]
NoThread == [st |-> "unborn", slot |-> 0, wpc |-> "top", d |-> 0, period |-> 0]
\* arg is the argument as passed, val the parameter after the function's first statement
NoCall == [op |-> "none", pin |-> 0, arg |-> 0, val |-> 0, i |-> NoSlot, jt |-> NoTid]
\* us: the argument of the usleep that follows a worker's pin write
NoEv == [c |-> 0, t |-> NoTid, act |-> "none", pin |-> 0, val |-> 0, us |-> 0]

Ev(c, t, act, pin, val) == [c |-> c, t |-> t, act |-> act, pin |-> pin, val |-> val, us |-> 0]

(* ---- rpi_gpio.h ---- *)
\* mutant: the range check lets pin 54 through
ValidPin_Through54(pin) == ~(pin < GPIO_PIN_MIN \/ pin > GPIO_PIN_MAX + 1)

ValidPin(pin) == ~(pin < GPIO_PIN_MIN \/ pin > GPIO_PIN_MAX)

\* val &= ~(0b111 << bit_offset); if (mode == OUTPUT) val |= (0b001 << bit_offset);
pin_mode(fs, pin, mode) ==
    IF ~ValidPin(pin) THEN fs
    ELSE IF ~gpio_map THEN fs
    ELSE {e \in fs : e[1] # pin} \cup (IF mode = OUTPUT THEN {<<pin, 1>>} ELSE {})

\* value == HIGH sets the pin's bit through GPSETn, any other value clears
\* it through GPCLRn
digital_write(lv, pin, value) ==
    IF ~ValidPin(pin) THEN lv
    ELSE IF ~gpio_map THEN lv
    ELSE IF value = HIGH THEN lv \cup {pin} ELSE lv \ {pin}

\* the level a pin's output latch holds
LevelOf(pin) == IF pin \in level THEN HIGH ELSE LOW

(* ---- rpi_pwm.h ---- *)
\* mutant: the clamp without its upper limit
PWM_CLAMP_DUTY_NoUpper(d) == IF d < PWM_DUTY_MIN THEN PWM_DUTY_MIN ELSE d

PWM_CLAMP_DUTY(d) ==
    IF d < PWM_DUTY_MIN THEN PWM_DUTY_MIN
    ELSE IF d > PWM_DUTY_MAX THEN PWM_DUTY_MAX ELSE d

\* freq_hz as pwm_init_freq uses it after its first statement
EffectiveFreq(freq_hz) == IF freq_hz <= 0 THEN PWM_DEFAULT_FREQ_HZ ELSE freq_hz

\* mutant: the period rounded up
PeriodOf_RoundedUp(freq_hz) ==
    IF 1000000 % freq_hz = 0 THEN 1000000 \div freq_hz ELSE 1000000 \div freq_hz + 1

PeriodOf(freq_hz) == 1000000 \div freq_hz

\* mutant: a slot is matched by its pin alone, active or not
SlotMatches_PinOnly(pool, i, pin) == pool[i].pin = pin

\* pwm_pins[i].active && pwm_pins[i].pin == pin
SlotMatches(pool, i, pin) == pool[i].active /\ pool[i].pin = pin

\* mutant: the scan without its early return for a pin that is already active
RECURSIVE ScanInit_NoEarlyReturn(_, _, _, _)
ScanInit_NoEarlyReturn(pool, pin, i, slot) ==
    IF i >= MAX_PWM_PINS THEN slot
    ELSE ScanInit_NoEarlyReturn(pool, pin, i + 1,
                                IF ~pool[i].active /\ slot = NoSlot THEN i ELSE slot)

\* mutant: the scan stops at the first free slot instead of looking at the
\* slots behind it
RECURSIVE ScanInit_BreakOnFree(_, _, _, _)
ScanInit_BreakOnFree(pool, pin, i, slot) ==
    IF i >= MAX_PWM_PINS THEN slot
    ELSE IF pool[i].active /\ pool[i].pin = pin THEN Already
    ELSE IF ~pool[i].active THEN i
    ELSE ScanInit_BreakOnFree(pool, pin, i + 1, slot)

\* mutant: the scan never looks at the last slot of the pool
RECURSIVE ScanInit_OffByOne(_, _, _, _)
ScanInit_OffByOne(pool, pin, i, slot) ==
    IF i >= MAX_PWM_PINS - 1 THEN slot
    ELSE IF pool[i].active /\ pool[i].pin = pin THEN Already
    ELSE ScanInit_OffByOne(pool, pin, i + 1,
                           IF ~pool[i].active /\ slot = NoSlot THEN i ELSE slot)

\* the scan loop of pwm_init_freq: Already on the early return, else the
\* first free slot or NoSlot
RECURSIVE ScanInit(_, _, _, _)
ScanInit(pool, pin, i, slot) ==
    IF i >= MAX_PWM_PINS THEN slot
    ELSE IF SlotMatches(pool, i, pin) THEN Already
    ELSE ScanInit(pool, pin, i + 1,
                  IF ~pool[i].active /\ slot = NoSlot THEN i ELSE slot)

\* mutant: the lookup takes the first slot that ever held pin, freed or not
RECURSIVE FindActive_Stale(_, _, _)
FindActive_Stale(pool, pin, i) ==
    IF i >= MAX_PWM_PINS THEN NoSlot
    ELSE IF pool[i].pin = pin /\ pool[i].thread # NoTid THEN i
    ELSE FindActive_Stale(pool, pin, i + 1)

\* the scan loop of pwm_write and pwm_stop: first active slot of pin, or NoSlot
RECURSIVE FindActive(_, _, _)
FindActive(pool, pin, i) ==
    IF i >= MAX_PWM_PINS THEN NoSlot
    ELSE IF SlotMatches(pool, i, pin) THEN i
    ELSE FindActive(pool, pin, i + 1)

(* ---- uint64_t ---- *)
\* A 64-bit value is written <<k, off>> for k * 2^63 + off, with an offset
\* that is small beside 2^63: the values near 0, near 2^63 and, with k = 2
\* and off < 0, just below 2^64.  Sums and comparisons of such values are
\* exact.
U64(k, off) == <<k, off>>
UINT64_MAX == U64(2, -1)
\* reduction modulo 2^64
U64Wrap(k, off) == IF k % 2 = 0 /\ off < 0 THEN U64(2, off) ELSE U64(k % 2, off)
\* a + b in uint64_t
U64Add(a, b) == U64Wrap(a[1] + b[1], a[2] + b[2])
\* a <= b, a < b
U64Leq(a, b) == a[1] < b[1] \/ (a[1] = b[1] /\ a[2] <= b[2])
U64Less(a, b) == ~U64Leq(b, a)
\* b - a for a <= b
Elapsed(a, b) == U64(b[1] - a[1], b[2] - a[2])

\* set_at before the first timer_set
NeverSet == <<>>
\* polls before the first timer_set
NoPolls == [last |-> U64(0, 0), regular |-> FALSE, trues |-> 0]
\* the timer before any timer_set and the polling thread outside any call
NoTimer == [next_expiry |-> U64(0, 0), interval |-> U64(0, 0)]
NoTloc == [now |-> U64(0, 0), old |-> NoTimer]
\* act: the call or statement, arg: its interval argument, ret: what it returned,
\* now: the clock value it read, old: the timer when the call began
NoTev == [act |-> "none", arg |-> U64(0, 0), ret |-> FALSE, now |-> U64(0, 0),
          old |-> NoTimer]

(* ---- uint64_t, every value ---- *)
\* A 64-bit value as its two 32-bit halves <<hi, lo>>, each written as the
\* signed number with the same bits (two's complement).
W64(hi, lo) == <<hi, lo>>

\* x + y and x - y in a 32-bit register
AddWrap32(x, y) ==
    IF x >= 0 /\ y >= 0 /\ x > INT_MAX - y THEN (x + INT_MIN) + (y + INT_MIN)
    ELSE IF x < 0 /\ y < 0 /\ x < INT_MIN - y THEN (x - INT_MIN) + (y - INT_MIN)
    ELSE x + y
SubWrap32(x, y) == IF y = INT_MIN THEN AddWrap32(x, INT_MIN) ELSE AddWrap32(x, -y)

\* a < b for the unsigned values of two 32-bit registers
ULess32(a, b) == IF (a < 0) = (b < 0) THEN a < b ELSE b < 0

\* a + b and a - b in uint64_t
W64Add(a, b) ==
    LET lo == AddWrap32(a[2], b[2])
        carry == IF ULess32(lo, a[2]) THEN 1 ELSE 0
    IN W64(AddWrap32(AddWrap32(a[1], b[1]), carry), lo)
W64Sub(a, b) ==
    LET lo == SubWrap32(a[2], b[2])
        borrow == IF ULess32(a[2], b[2]) THEN 1 ELSE 0
    IN W64(SubWrap32(SubWrap32(a[1], b[1]), borrow), lo)

\* a < b, a <= b in uint64_t
W64Less(a, b) == ULess32(a[1], b[1]) \/ (a[1] = b[1] /\ ULess32(a[2], b[2]))
W64Leq(a, b) == ~W64Less(b, a)

\* the four 16-bit digits of a, highest first, and two digits as a register
Digits16(a) ==
    <<(a[1] \div 65536) % 65536, a[1] % 65536, (a[2] \div 65536) % 65536, a[2] % 65536>>
Pack32(h16, l16) ==
    IF h16 >= 32768 THEN (h16 - 65536) * 65536 + l16 ELSE h16 * 65536 + l16

\* a / d in uint64_t for 1 <= d <= 32767: long division, digit by digit
W64Div(a, d) ==
    LET n == Digits16(a)
        q1 == n[1] \div d
        r1 == n[1] % d
        q2 == (r1 * 65536 + n[2]) \div d
        r2 == (r1 * 65536 + n[2]) % d
        q3 == (r2 * 65536 + n[3]) \div d
        r3 == (r2 * 65536 + n[3]) % d
        q4 == (r3 * 65536 + n[4]) \div d
    IN W64(Pack32(q1, q2), Pack32(q3, q4))

\* a struct timespec, and the clock at boot
Timespec(sec, nsec) == [tv_sec |-> sec, tv_nsec |-> nsec]
Boot == Timespec(0, 0)
\* seen before the first call
NoReading == <<>>
NoDloc == [start |-> W64(0, 0), arg |-> 0, at |-> Boot]
\* act: the call or statement, arg: the delay asked for, from: the clock
\* when the delay began
NoCev == [act |-> "none", arg |-> 0, from |-> Boot]

\* a call's record: ret is what it returned, out what it printed, access the
\* registers it read or wrote, rel what it released; duty is the third
\* argument of an hpwm_set that went on to its stores
Gev(act, pin, arg, ret, out, access, rel) ==
    [act |-> act, pin |-> pin, arg |-> arg, ret |-> ret, out |-> out,
     access |-> access, rel |-> rel, duty |-> 0]
NoGev == Gev("none", 0, 0, 0, "", {}, {})
NoPwmRegs == [ctl |-> {}, rng |-> <<0, 0>>, dat |-> <<0, 0>>]
NoClkRegs == [ctl |-> 0, div |-> 0]

\* gpio_init has returned 0 on the Raspberry Pi, hpwm_init was never called,
\* and nobody calls the GPIO or hardware PWM functions directly
HwIdle ==
    /\ platform = "RPI"
    /\ mem_fd = "open"
    /\ gpio_bad = FALSE
    /\ ext = {}
    /\ inited = [gpio |-> "ok", hpwm |-> "no"]
    /\ pwm_map = "NULL"
    /\ clk_map = "NULL"
    /\ mem_fd_hw = "-1"
    /\ pwm_regs = NoPwmRegs
    /\ clk_regs = NoClkRegs
    /\ gev = NoGev
    /\ gpc = "run"
    /\ hcalls = 0

\* nobody reads the clock or delays
ClockIdle ==
    /\ ts = Boot
    /\ seen = [millis |-> NoReading, micros |-> NoReading]
    /\ dpc = "idle"
    /\ dloc = NoDloc
    /\ cev = NoCev
    /\ HwIdle

\* simple_timer.h is not used by the PWM engine: it stays as it starts
TimerIdle ==
    /\ clock = U64(0, 0)
    /\ timer = NoTimer
    /\ tpc = "idle"
    /\ tloc = NoTloc
    /\ tev = NoTev
    /\ set_at = NeverSet
    /\ polls = NoPolls
    /\ ClockIdle

UnbornTids == {t \in DOMAIN threads : threads[t].st = "unborn"}
FreshTid == CHOOSE t \in UnbornTids : \A u \in UnbornTids : t <= u

Init ==
    /\ pwm_pins = [i \in Slots |-> ZeroSlot]
    /\ pwm_mutex = 0
    /\ threads = [t \in Tids |-> NoThread]
    /\ gpio_map = TRUE
    /\ fsel = {}
    /\ level = {}
    /\ pc = [c \in Callers |-> "idle"]
    /\ call = [c \in Callers |-> NoCall]
    /\ ncalls = 0
    /\ ev = NoEv
    /\ TimerIdle

(* ---- pthread_mutex_lock(&pwm_mutex) ---- *)
\* Entering an API function touches no shared state before it locks the
\* mutex, so the entry and the lock are one step: a caller that has entered
\* but not yet locked is a caller whose Call* step has not happened yet.
Lock(c) ==
    /\ pc[c] = "idle"
    /\ pwm_mutex = 0
    /\ pwm_mutex' = c
    /\ ncalls' = ncalls + 1

\* unlock and return val to the caller
Return(c, act, val) ==
    /\ pwm_mutex' = 0
    /\ pc' = [pc EXCEPT ![c] = "idle"]
    /\ call' = [call EXCEPT ![c] = NoCall]
    /\ ev' = Ev(c, NoTid, act, call[c].pin, val)

(* ---- pwm_init_freq ---- *)
CallInitFreq(c, pin, freq_hz) ==
    /\ Lock(c)
    /\ pc' = [pc EXCEPT ![c] = "init_cs"]
    /\ call' = [call EXCEPT ![c] = [NoCall EXCEPT !.op = "init", !.pin = pin,
                                        !.arg = freq_hz,
                                        !.val = EffectiveFreq(freq_hz)]]
    /\ ev' = Ev(c, NoTid, "call_init", pin, freq_hz)
    /\ UNCHANGED <<tvars, pwm_pins, threads, gpio_map, fsel, level>>

CallInit(c, pin) == CallInitFreq(c, pin, PWM_DEFAULT_FREQ_HZ)

\* mutant: the early return after the slot's duty and period are set afresh
InitAlready_Repopulates(c) ==
    LET i == FindActive(pwm_pins, call[c].pin, 0) IN
    /\ pc[c] = "init_cs"
    /\ ScanInit(pwm_pins, call[c].pin, 0, NoSlot) = Already
    /\ pwm_pins' = [pwm_pins EXCEPT ![i].duty = 0,
                                    ![i].period_us = PeriodOf(call[c].val)]
    /\ Return(c, "init_already", 0)
    /\ UNCHANGED <<tvars, threads, gpio_map, fsel, level, ncalls>>

InitAlready(c) ==
    /\ pc[c] = "init_cs"
    /\ ScanInit(pwm_pins, call[c].pin, 0, NoSlot) = Already
    /\ Return(c, "init_already", 0)
    /\ UNCHANGED <<tvars, pwm_pins, threads, gpio_map, fsel, level, ncalls>>

InitFull(c) ==
    /\ pc[c] = "init_cs"
    /\ ScanInit(pwm_pins, call[c].pin, 0, NoSlot) = NoSlot
    /\ Return(c, "init_full", -1)
    /\ UNCHANGED <<tvars, pwm_pins, threads, gpio_map, fsel, level, ncalls>>

\* mutant: the slot keeps the duty it held before
Populate_KeepsDuty(pool, slot, pin, freq_hz) ==
    [pool EXCEPT ![slot] = [@ EXCEPT !.pin = pin,
                                     !.period_us = PeriodOf(freq_hz),
                                     !.running = TRUE,
                                     !.active = TRUE]]

\* the five assignments to pwm_pins[slot]
Populate(pool, slot, pin, freq_hz) ==
    [pool EXCEPT ![slot] = [@ EXCEPT !.pin = pin,
                                     !.duty = 0,
                                     !.period_us = PeriodOf(freq_hz),
                                     !.running = TRUE,
                                     !.active = TRUE]]

\* a free slot is found and pthread_create succeeds: a new worker starts on
\* &pwm_pins[slot].  The mutex is held from the scan to the return, and the
\* only threads that can look at the slot meanwhile are workers, which read
\* neither active nor thread: the slot is filled and the thread made in one step.
InitCreateOk(c) ==
    LET slot == ScanInit(pwm_pins, call[c].pin, 0, NoSlot) IN
    /\ pc[c] = "init_cs"
    /\ slot \in Slots
    /\ UnbornTids # {}
    /\ fsel' = pin_mode(fsel, call[c].pin, OUTPUT)
    /\ pwm_pins' = [Populate(pwm_pins, slot, call[c].pin, call[c].val)
                        EXCEPT ![slot].thread = FreshTid]
    /\ threads' = [threads EXCEPT ![FreshTid] =
                       [NoThread EXCEPT !.st = "live", !.slot = slot]]
    /\ Return(c, "init_ok", 0)
    /\ UNCHANGED <<tvars, gpio_map, level, ncalls>>

\* mutant: the failure branch leaves the slot marked active
Rollback_Forgotten(pool, slot) == pool

\* what the failure branch of pthread_create does to the slot it had filled
Rollback(pool, slot) == [pool EXCEPT ![slot].active = FALSE]

\* a free slot is found and pthread_create fails
InitCreateFail(c) ==
    LET slot == ScanInit(pwm_pins, call[c].pin, 0, NoSlot) IN
    /\ pc[c] = "init_cs"
    /\ slot \in Slots
    /\ fsel' = pin_mode(fsel, call[c].pin, OUTPUT)
    /\ pwm_pins' = Rollback(Populate(pwm_pins, slot, call[c].pin, call[c].val), slot)
    /\ Return(c, "init_spawn_failed", -1)
    /\ UNCHANGED <<tvars, threads, gpio_map, level, ncalls>>

(* ---- pwm_write ---- *)
CallWrite(c, pin, duty) ==
    /\ Lock(c)
    /\ pc' = [pc EXCEPT ![c] = "write_cs"]
    /\ call' = [call EXCEPT ![c] = [NoCall EXCEPT !.op = "write", !.pin = pin,
                                        !.arg = duty,
                                        !.val = PWM_CLAMP_DUTY(duty)]]
    /\ ev' = Ev(c, NoTid, "call_write", pin, duty)
    /\ UNCHANGED <<tvars, pwm_pins, threads, gpio_map, fsel, level>>

\* mutant: the loop stores the duty in every active slot, without the pin test
StoreDuty_AnyPin(pool, pin, duty) ==
    [i \in Slots |-> IF pool[i].active THEN [pool[i] EXCEPT !.duty = duty] ELSE pool[i]]

\* the loop of pwm_write on the pool: pwm_pins[i].duty = duty for the first
\* active slot of pin, nothing when there is none (duty is clamped already)
StoreDuty(pool, pin, duty) ==
    LET i == FindActive(pool, pin, 0) IN
    IF i = NoSlot THEN pool ELSE [pool EXCEPT ![i].duty = duty]

WriteHit(c) ==
    LET i == FindActive(pwm_pins, call[c].pin, 0) IN
    /\ pc[c] = "write_cs"
    /\ i \in Slots
    /\ pwm_pins' = StoreDuty(pwm_pins, call[c].pin, call[c].val)
    /\ Return(c, "write_hit", call[c].arg)
    /\ UNCHANGED <<tvars, threads, gpio_map, fsel, level, ncalls>>

\* mutant: the return after the loop without its unlock
WriteMiss_NoUnlock(c) ==
    /\ pc[c] = "write_cs"
    /\ FindActive(pwm_pins, call[c].pin, 0) = NoSlot
    /\ pc' = [pc EXCEPT ![c] = "idle"]
    /\ call' = [call EXCEPT ![c] = NoCall]
    /\ ev' = Ev(c, NoTid, "write_miss", call[c].pin, call[c].arg)
    /\ UNCHANGED <<tvars, pwm_pins, pwm_mutex, threads, gpio_map, fsel, level, ncalls>>

\* the loop found no active slot for the pin: unlock
WriteMiss(c) ==
    /\ pc[c] = "write_cs"
    /\ FindActive(pwm_pins, call[c].pin, 0) = NoSlot
    /\ Return(c, "write_miss", call[c].arg)
    /\ UNCHANGED <<tvars, pwm_pins, threads, gpio_map, fsel, level, ncalls>>

(* ---- pwm_stop ---- *)
CallStop(c, pin) ==
    /\ Lock(c)
    /\ pc' = [pc EXCEPT ![c] = "stop_cs"]
    /\ call' = [call EXCEPT ![c] = [NoCall EXCEPT !.op = "stop", !.pin = pin]]
    /\ ev' = Ev(c, NoTid, "call_stop", pin, 0)
    /\ UNCHANGED <<tvars, pwm_pins, threads, gpio_map, fsel, level>>

StopMiss(c) ==
    /\ pc[c] = "stop_cs"
    /\ FindActive(pwm_pins, call[c].pin, 0) = NoSlot
    /\ Return(c, "stop_miss", 0)
    /\ UNCHANGED <<tvars, pwm_pins, threads, gpio_map, fsel, level, ncalls>>

\* mutant: the slot is released together with the flag, before the join
StopClear_FreesSlot(c) ==
    LET i == FindActive(pwm_pins, call[c].pin, 0) IN
    /\ pc[c] = "stop_cs"
    /\ i \in Slots
    /\ pwm_pins' = [pwm_pins EXCEPT ![i].running = FALSE, ![i].active = FALSE]
    /\ pwm_mutex' = 0
    /\ pc' = [pc EXCEPT ![c] = "stop_join"]
    /\ call' = [call EXCEPT ![c].i = i]
    /\ ev' = Ev(c, NoTid, "stop_clear", call[c].pin, i)
    /\ UNCHANGED <<tvars, threads, gpio_map, fsel, level, ncalls>>

\* mutant: the mutex is still held when the caller goes to join the worker
StopClear_KeepsLock(c) ==
    LET i == FindActive(pwm_pins, call[c].pin, 0) IN
    /\ pc[c] = "stop_cs"
    /\ i \in Slots
    /\ pwm_pins' = [pwm_pins EXCEPT ![i].running = FALSE]
    /\ pc' = [pc EXCEPT ![c] = "stop_join"]
    /\ call' = [call EXCEPT ![c].i = i]
    /\ ev' = Ev(c, NoTid, "stop_clear", call[c].pin, i)
    /\ UNCHANGED <<tvars, pwm_mutex, threads, gpio_map, fsel, level, ncalls>>

\* mutant: the running flag is left set
StopClear_NoFlag(c) ==
    LET i == FindActive(pwm_pins, call[c].pin, 0) IN
    /\ pc[c] = "stop_cs"
    /\ i \in Slots
    /\ pwm_mutex' = 0
    /\ pc' = [pc EXCEPT ![c] = "stop_join"]
    /\ call' = [call EXCEPT ![c].i = i]
    /\ ev' = Ev(c, NoTid, "stop_clear", call[c].pin, i)
    /\ UNCHANGED <<tvars, pwm_pins, threads, gpio_map, fsel, level, ncalls>>

\* running = false; unlock
StopClear(c) ==
    LET i == FindActive(pwm_pins, call[c].pin, 0) IN
    /\ pc[c] = "stop_cs"
    /\ i \in Slots
    /\ pwm_pins' = [pwm_pins EXCEPT ![i].running = FALSE]
    /\ pwm_mutex' = 0
    /\ pc' = [pc EXCEPT ![c] = "stop_join"]
    /\ call' = [call EXCEPT ![c].i = i]
    /\ ev' = Ev(c, NoTid, "stop_clear", call[c].pin, i)
    /\ UNCHANGED <<tvars, threads, gpio_map, fsel, level, ncalls>>

\* pthread_join(pwm_pins[i].thread, NULL) is called: the handle is read now
JoinCall(c) ==
    /\ pc[c] = "stop_join"
    /\ pc' = [pc EXCEPT ![c] = "stop_wait"]
    /\ call' = [call EXCEPT ![c].jt = pwm_pins[call[c].i].thread]
    /\ ev' = Ev(c, pwm_pins[call[c].i].thread, "join_call", call[c].pin, call[c].i)
    /\ UNCHANGED <<tvars, pwm_pins, pwm_mutex, threads, gpio_map, fsel, level, ncalls>>

\* the thread has exited and nobody joined it before: the join completes
JoinReturn(c) ==
    /\ pc[c] = "stop_wait"
    /\ threads[call[c].jt].st = "exited"
    /\ threads' = [threads EXCEPT ![call[c].jt].st = "joined"]
    /\ pc' = [pc EXCEPT ![c] = "stop_relock"]
    /\ ev' = Ev(c, call[c].jt, "join_return", call[c].pin, call[c].i)
    /\ UNCHANGED <<tvars, pwm_pins, pwm_mutex, gpio_map, fsel, level, call, ncalls>>

\* a second join of one thread is undefined: the handle was already joined,
\* or another caller is waiting in pthread_join on it.  The call may come
\* back at once with an error (or never: that is the step not taken).
OtherJoiner(c) ==
    \E c2 \in Callers \ {c} : pc[c2] = "stop_wait" /\ call[c2].jt = call[c].jt

JoinUndefined(c) ==
    /\ pc[c] = "stop_wait"
    /\ threads[call[c].jt].st = "joined" \/ OtherJoiner(c)
    /\ pc' = [pc EXCEPT ![c] = "stop_relock"]
    /\ ev' = Ev(c, call[c].jt, "join_undefined", call[c].pin, call[c].i)
    /\ UNCHANGED <<tvars, pwm_pins, pwm_mutex, threads, gpio_map, fsel, level, call, ncalls>>

\* pthread_mutex_lock again after the join
StopRelock(c) ==
    /\ pc[c] = "stop_relock"
    /\ pwm_mutex = 0
    /\ pwm_mutex' = c
    /\ pc' = [pc EXCEPT ![c] = "stop_fin"]
    /\ ev' = Ev(c, NoTid, "relock", call[c].pin, call[c].i)
    /\ UNCHANGED <<tvars, pwm_pins, threads, gpio_map, fsel, level, call, ncalls>>

\* mutant: the slot is released without forcing the pin low
StopFinish_NoLow(c) ==
    /\ pc[c] = "stop_fin"
    /\ pwm_pins' = [pwm_pins EXCEPT ![call[c].i].active = FALSE]
    /\ Return(c, "stop_done", call[c].i)
    /\ UNCHANGED <<tvars, threads, gpio_map, fsel, level, ncalls>>

\* digital_write(pin, LOW); active = false; unlock; return
StopFinish(c) ==
    /\ pc[c] = "stop_fin"
    /\ level' = digital_write(level, call[c].pin, LOW)
    /\ pwm_pins' = [pwm_pins EXCEPT ![call[c].i].active = FALSE]
    /\ Return(c, "stop_done", call[c].i)
    /\ UNCHANGED <<tvars, threads, gpio_map, fsel, ncalls>>

(* ---- pwm_thread_func, one worker thread t on slot p ---- *)
WorkerAt(t, wpc) == threads[t].st = "live" /\ threads[t].wpc = wpc

\* mutant: the loop without its test of running
WorkerTop_NoTest(t) ==
    LET p == pwm_pins[threads[t].slot] IN
    /\ WorkerAt(t, "top")
    /\ threads' = [threads EXCEPT ![t] = [@ EXCEPT !.wpc = "first", !.d = p.duty,
                                                   !.period = p.period_us]]
    /\ ev' = Ev(0, t, "w_cycle", p.pin, p.duty)
    /\ UNCHANGED <<tvars, pwm_pins, pwm_mutex, gpio_map, fsel, level, pc, call, ncalls>>

\* while (p->running) { int d = p->duty; int period = p->period_us;
\* The test reads running only and the two reads follow it at once; a write
\* that lands between them gives what the same write gives just before the
\* test, so test and reads are one step.
WorkerTop(t) ==
    LET p == pwm_pins[threads[t].slot] IN
    /\ WorkerAt(t, "top")
    /\ threads' = [threads EXCEPT ![t] =
                       IF p.running
                       THEN [@ EXCEPT !.wpc = "first", !.d = p.duty,
                                      !.period = p.period_us]
                       ELSE [@ EXCEPT !.st = "exited"]]
    /\ ev' = Ev(0, t, IF p.running THEN "w_cycle" ELSE "w_exit", p.pin, p.duty)
    /\ UNCHANGED <<tvars, pwm_pins, pwm_mutex, gpio_map, fsel, level, pc, call, ncalls>>

\* the level the first digital_write of a cycle writes
FirstLevel(d) == IF d <= PWM_DUTY_MIN THEN LOW ELSE HIGH
\* the else branch: HIGH for on_time, then LOW for off_time
TwoPhase(d) == ~(d <= PWM_DUTY_MIN) /\ ~(d >= PWM_DUTY_MAX)

\* mutant: the low phase lasts the whole period
off_time_WholePeriod(period, d) == period

\* int on_time = (period * d) / PWM_DUTY_MAX; int off_time = period - on_time;
on_time(period, d) == (period * d) \div PWM_DUTY_MAX
off_time(period, d) == period - on_time(period, d)
\* the argument of the usleep after the first write
FirstSleep(period, d) == IF TwoPhase(d) THEN on_time(period, d) ELSE period

\* the first digital_write(p->pin, ..) of the cycle and the usleep after it
WorkerFirst(t) ==
    LET p == pwm_pins[threads[t].slot] IN
    /\ WorkerAt(t, "first")
    /\ level' = digital_write(level, p.pin, FirstLevel(threads[t].d))
    /\ threads' = [threads EXCEPT ![t] =
                       IF TwoPhase(threads[t].d)
                       THEN [@ EXCEPT !.wpc = "second"]
                       ELSE [@ EXCEPT !.wpc = "top", !.d = 0, !.period = 0]]
    /\ ev' = [Ev(0, t, "w_write", p.pin, FirstLevel(threads[t].d))
                 EXCEPT !.us = FirstSleep(threads[t].period, threads[t].d)]
    /\ UNCHANGED <<tvars, pwm_pins, pwm_mutex, gpio_map, fsel, pc, call, ncalls>>

\* mutant: the low phase is computed from the duty the slot holds now
WorkerSecond_ReadsAgain(t) ==
    LET p == pwm_pins[threads[t].slot] IN
    /\ WorkerAt(t, "second")
    /\ level' = digital_write(level, p.pin, LOW)
    /\ threads' = [threads EXCEPT ![t] = [@ EXCEPT !.wpc = "top", !.d = 0, !.period = 0]]
    /\ ev' = [Ev(0, t, "w_write", p.pin, LOW)
                 EXCEPT !.us = off_time(threads[t].period, p.duty)]
    /\ UNCHANGED <<tvars, pwm_pins, pwm_mutex, gpio_map, fsel, pc, call, ncalls>>

\* digital_write(p->pin, LOW); usleep(off_time);
WorkerSecond(t) ==
    LET p == pwm_pins[threads[t].slot] IN
    /\ WorkerAt(t, "second")
    /\ level' = digital_write(level, p.pin, LOW)
    /\ threads' = [threads EXCEPT ![t] = [@ EXCEPT !.wpc = "top", !.d = 0, !.period = 0]]
    /\ ev' = [Ev(0, t, "w_write", p.pin, LOW)
                 EXCEPT !.us = off_time(threads[t].period, threads[t].d)]
    /\ UNCHANGED <<tvars, pwm_pins, pwm_mutex, gpio_map, fsel, pc, call, ncalls>>

\* InitFull needs a full pool and JoinUndefined a second joiner: each is a
\* disjunct of the specifications whose callers can bring that about
CallerStep(c) ==
    \/ InitAlready(c)
    \/ InitCreateOk(c)
    \/ InitCreateFail(c)
    \/ WriteHit(c)
    \/ WriteMiss(c)
    \/ StopMiss(c)
    \/ StopClear(c)
    \/ JoinCall(c)
    \/ JoinReturn(c)
    \/ StopRelock(c)
    \/ StopFinish(c)

WorkerStep(t) ==
    \/ WorkerTop(t)
    \/ WorkerFirst(t)
    \/ WorkerSecond(t)

\* the callers enter at most MaxCalls API calls in all
Budget == ncalls < MaxCalls

\* any interleaving of the callers and the workers
Next ==
    \/ \E c \in Callers, pin \in Pins : Budget /\ CallInit(c, pin)
    \/ \E c \in Callers, pin \in Pins, f \in FreqInputs : Budget /\ CallInitFreq(c, pin, f)
    \/ \E c \in Callers, pin \in Pins, d \in DutyInputs : Budget /\ CallWrite(c, pin, d)
    \/ \E c \in Callers, pin \in Pins : Budget /\ CallStop(c, pin)
    \/ \E c \in Callers : CallerStep(c)
    \/ \E c \in Callers : JoinUndefined(c)
    \/ \E t \in Tids : WorkerStep(t)

Spec == Init /\ [][Next]_vars

\* caller c2 is inside pwm_init_freq or pwm_stop for pin
LifecycleOn(c2, pin) == call[c2].op \in {"init", "stop"} /\ call[c2].pin = pin
\* no other caller is inside a pwm_init_freq or pwm_stop for pin
Serialized(c, pin) == \A c2 \in Callers \ {c} : ~LifecycleOn(c2, pin)

\* callers that serialize pwm_init / pwm_stop per pin: such a call is entered
\* only when no other caller is inside one for the same pin.  pwm_write and
\* calls for other pins overlap freely.
NextSer ==
    \/ \E c \in Callers, pin \in Pins : Budget /\ Serialized(c, pin) /\ CallInit(c, pin)
    \/ \E c \in Callers, pin \in Pins, f \in FreqInputs :
           Budget /\ Serialized(c, pin) /\ CallInitFreq(c, pin, f)
    \/ \E c \in Callers, pin \in Pins, d \in DutyInputs : Budget /\ CallWrite(c, pin, d)
    \/ \E c \in Callers, pin \in Pins : Budget /\ Serialized(c, pin) /\ CallStop(c, pin)
    \/ \E c \in Callers : CallerStep(c)
    \/ \E t \in Tids : WorkerStep(t)

SpecSer == Init /\ [][NextSer]_vars

\* the duty the callers of NextStop write: one that makes the worker toggle
StopDuty == 50

\* the same callers, with one way to start a pin (pwm_init) and one duty to
\* write: what a pwm_stop has to wait for does not depend on either
NextStop ==
    \/ \E c \in Callers, pin \in Pins : Budget /\ Serialized(c, pin) /\ CallInit(c, pin)
    \/ \E c \in Callers, pin \in Pins : Budget /\ CallWrite(c, pin, StopDuty)
    \/ \E c \in Callers, pin \in Pins : Budget /\ Serialized(c, pin) /\ CallStop(c, pin)
    \/ \E c \in Callers : CallerStep(c)
    \/ \E t \in Tids : WorkerStep(t)

\* every thread is scheduled fairly: a worker that can take a step (its
\* usleep has ended) takes it, and so does a caller that is inside a call
\* and not waiting
SpecSerFair ==
    /\ Init /\ [][NextStop]_vars
    /\ \A t \in Tids : WF_vars(WorkerStep(t))
    /\ \A c \in Callers : WF_vars(CallerStep(c))

\* no other caller is inside the opposite lifecycle call for pin: a pwm_init
\* never overlaps a pwm_stop of the same pin; two pwm_stop may overlap
NoInitStopOverlap(c, op, pin) ==
    \A c2 \in Callers \ {c} :
        call[c2].pin = pin =>
            /\ ~(op = "init" /\ call[c2].op = "stop")
            /\ ~(op = "stop" /\ call[c2].op = "init")

NextNoIS ==
    \/ \E c \in Callers, pin \in Pins :
           Budget /\ NoInitStopOverlap(c, "init", pin) /\ CallInit(c, pin)
    \/ \E c \in Callers, pin \in Pins, f \in FreqInputs :
           Budget /\ NoInitStopOverlap(c, "init", pin) /\ CallInitFreq(c, pin, f)
    \/ \E c \in Callers, pin \in Pins, d \in DutyInputs : Budget /\ CallWrite(c, pin, d)
    \/ \E c \in Callers, pin \in Pins :
           Budget /\ NoInitStopOverlap(c, "stop", pin) /\ CallStop(c, pin)
    \/ \E c \in Callers : CallerStep(c)
    \/ \E c \in Callers : JoinUndefined(c)
    \/ \E t \in Tids : WorkerStep(t)

SpecNoIS == Init /\ [][NextNoIS]_vars

(* ---- the pool at its capacity ---- *)
\* One caller fills the pool as test_pwm_reuse_slot_after_stop does, with
\* pwm_init(0) .. pwm_init(MAX_PWM_PINS - 1) in this order, and then enters up
\* to MaxCapCalls calls of pwm_init or pwm_stop on any of MAX_PWM_PINS + 1
\* pins.  The duty stays 0; a worker sleeps through its periods and is
\* scheduled only to see its running flag cleared.
CapPins == 0..MAX_PWM_PINS
CapTids == 1..(MAX_PWM_PINS + MaxCapCalls)
CapCaller == 1
Filling == ncalls < MAX_PWM_PINS
CapBudget == ncalls < MAX_PWM_PINS + MaxCapCalls

InitCap ==
    /\ pwm_pins = [i \in Slots |-> ZeroSlot]
    /\ pwm_mutex = 0
    /\ threads = [t \in CapTids |-> NoThread]
    /\ gpio_map = TRUE
    /\ fsel = {}
    /\ level = {}
    /\ pc = [c \in Callers |-> "idle"]
    /\ call = [c \in Callers |-> NoCall]
    /\ ncalls = 0
    /\ ev = NoEv
    /\ TimerIdle

NextCap ==
    \/ Filling /\ CallInit(CapCaller, ncalls)
    \/ \E pin \in CapPins : ~Filling /\ CapBudget /\ CallInit(CapCaller, pin)
    \/ \E pin \in CapPins : ~Filling /\ CapBudget /\ CallStop(CapCaller, pin)
    \/ InitAlready(CapCaller)
    \/ InitFull(CapCaller)
    \/ InitCreateOk(CapCaller)
    \/ ~Filling /\ InitCreateFail(CapCaller)
    \/ StopMiss(CapCaller)
    \/ StopClear(CapCaller)
    \/ JoinCall(CapCaller)
    \/ JoinReturn(CapCaller)
    \/ StopRelock(CapCaller)
    \/ StopFinish(CapCaller)
    \/ \E t \in CapTids : ~pwm_pins[threads[t].slot].running /\ WorkerTop(t)

SpecCap == InitCap /\ [][NextCap]_vars

(* ---- one caller, one pin, many frequencies and duties ---- *)
CycleCaller == 1
CyclePin == 18
\* 1 Hz gives the longest period, 3 Hz one that 1000000 is not a multiple of,
\* INT_MAX the shortest
CycleFreqs == {INT_MIN, 0, 1, 3, 1000000, INT_MAX}
CycleDuties == {INT_MIN, 0, 1, 33, 99, 100, INT_MAX}

NextCycle ==
    \/ Budget /\ CallInit(CycleCaller, CyclePin)
    \/ \E f \in CycleFreqs : Budget /\ CallInitFreq(CycleCaller, CyclePin, f)
    \/ \E d \in CycleDuties : Budget /\ CallWrite(CycleCaller, CyclePin, d)
    \/ Budget /\ CallStop(CycleCaller, CyclePin)
    \/ CallerStep(CycleCaller)
    \/ \E t \in Tids : WorkerStep(t)

SpecCycle == Init /\ [][NextCycle]_vars

(* ---- simple_timer.h ---- *)
\* the PWM engine is not running
pvars == <<pwm_pins, pwm_mutex, threads, gpio_map, fsel, level, pc, call, ncalls, ev, hvars>>

\* the intervals a caller arms with: 0, small ones, 2^63 and UINT64_MAX
IntervalInputs == {U64(0, 0), U64(0, 1), U64(0, 2), U64(0, 3), U64(1, 0), UINT64_MAX}
\* what a simple_timer_t on the stack holds before timer_set
GarbageTimers ==
    {[next_expiry |-> n, interval |-> i] :
        n \in {U64(0, 0), U64(0, 2), UINT64_MAX}, i \in {U64(0, 0), U64(0, 2)}}

InitTimer ==
    /\ pwm_pins = [i \in Slots |-> ZeroSlot]
    /\ pwm_mutex = 0
    /\ threads = [t \in Tids |-> NoThread]
    /\ gpio_map = TRUE
    /\ fsel = {}
    /\ level = {}
    /\ pc = [c \in Callers |-> "idle"]
    /\ call = [c \in Callers |-> NoCall]
    /\ ncalls = 0
    /\ ev = NoEv
    /\ clock \in {U64(0, 0), U64(0, 1)}
    /\ timer \in GarbageTimers
    /\ tpc = "idle"
    /\ tloc = NoTloc
    /\ tev = NoTev
    /\ set_at = NeverSet
    /\ polls = NoPolls
    /\ ClockIdle

\* CLOCK_MONOTONIC moves on by a millisecond, at any time
ClockAdvance ==
    /\ U64Less(clock, U64(0, MaxClock))
    /\ clock' = U64Add(clock, U64(0, 1))
    /\ UNCHANGED <<pvars, cvars, timer, tpc, tloc, tev, set_at, polls>>

\* the value millis() returns
millis == clock

\* mutant: the deadline is moved on from the old deadline, not taken from the clock
timer_set_FromOld(t, interval_ms) ==
    [interval |-> interval_ms, next_expiry |-> U64Add(t.next_expiry, interval_ms)]

\* t->interval = interval_ms; t->next_expiry = millis() + interval_ms;
timer_set(t, interval_ms) ==
    [interval |-> interval_ms, next_expiry |-> U64Add(millis, interval_ms)]

TimerSet(interval_ms) ==
    /\ tpc = "idle"
    /\ timer' = timer_set(timer, interval_ms)
    /\ set_at' = millis
    /\ polls' = [last |-> millis, regular |-> TRUE, trues |-> 0]
    /\ tev' = [act |-> "set", arg |-> interval_ms, ret |-> FALSE, now |-> millis, old |-> timer]
    /\ UNCHANGED <<pvars, cvars, clock, tpc, tloc>>

\* mutant: the query re-arms a timer it finds expired
timer_expired_Resets(t) ==
    IF U64Leq(t.next_expiry, millis)
    THEN [t EXCEPT !.next_expiry = U64Add(millis, t.interval)] ELSE t

\* what timer_expired does to the timer: nothing
timer_expired(t) == t

\* return millis() >= t->next_expiry;
TimerExpired ==
    /\ tpc = "idle"
    /\ timer' = timer_expired(timer)
    /\ tev' = [act |-> "expired", arg |-> U64(0, 0), ret |-> U64Leq(timer.next_expiry, millis),
               now |-> millis, old |-> timer]
    /\ UNCHANGED <<pvars, cvars, clock, tpc, tloc, set_at, polls>>

\* mutant: the outer test is missing
TickTest_Always(now, t) == TRUE

\* if (now >= t->next_expiry)
TickTest(now, t) == U64Leq(t.next_expiry, now)

\* uint64_t now = millis(); and the outer test: into the loop, or return false
TickEnter ==
    /\ tpc = "idle"
    /\ IF TickTest(millis, timer)
       THEN /\ tpc' = "tick_loop"
            /\ tloc' = [now |-> millis, old |-> timer]
            /\ tev' = [act |-> "tick_enter", arg |-> U64(0, 0), ret |-> FALSE, now |-> millis, old |-> timer]
       ELSE /\ tpc' = "idle"
            /\ tloc' = NoTloc
            /\ tev' = [act |-> "tick_false", arg |-> U64(0, 0), ret |-> FALSE, now |-> millis, old |-> timer]
    /\ polls' = [polls EXCEPT !.last = millis,
                              !.regular = @ /\ U64Less(Elapsed(polls.last, millis), timer.interval)]
    /\ UNCHANGED <<pvars, cvars, clock, timer, set_at>>

\* mutant: the loop stops as soon as the deadline reaches now
TickLoopTest_Strict(t, now) == U64Less(t.next_expiry, now)

\* while (t->next_expiry <= now)
TickLoopTest(t, now) == U64Leq(t.next_expiry, now)

\* one pass of the loop: t->next_expiry += t->interval;
TickAdd ==
    /\ tpc = "tick_loop"
    /\ TickLoopTest(timer, tloc.now)
    /\ timer' = [timer EXCEPT !.next_expiry = U64Add(timer.next_expiry, timer.interval)]
    /\ tev' = [act |-> "tick_add", arg |-> U64(0, 0), ret |-> FALSE, now |-> tloc.now, old |-> tloc.old]
    /\ UNCHANGED <<pvars, cvars, clock, tpc, tloc, set_at, polls>>

\* the loop test fails: return true
TickReturn ==
    /\ tpc = "tick_loop"
    /\ ~TickLoopTest(timer, tloc.now)
    /\ tpc' = "idle"
    /\ tloc' = NoTloc
    /\ tev' = [act |-> "tick_true", arg |-> U64(0, 0), ret |-> TRUE, now |-> tloc.now, old |-> tloc.old]
    /\ polls' = [polls EXCEPT !.trues = @ + 1]
    /\ UNCHANGED <<pvars, cvars, clock, timer, set_at>>

NextTimer ==
    \/ ClockAdvance
    \/ \E interval_ms \in IntervalInputs : TimerSet(interval_ms)
    \/ TimerExpired
    \/ TickEnter
    \/ TickAdd
    \/ TickReturn

SpecTimer == InitTimer /\ [][NextTimer]_vars

\* the caller that is inside timer_tick keeps running
SpecTimerFair == SpecTimer /\ WF_vars(TickAdd) /\ WF_vars(TickReturn)

(* ---- simple_timer.h: timer_tick on any timer at any clock value ---- *)
\* the clock values timer_tick reads and the deadlines it finds: near 0,
\* near 2^63 and just below 2^64
TickClocks == {U64(0, 0), U64(0, 3), U64(1, 0), U64(1, 2), U64(2, -2), UINT64_MAX}
TickDeadlines == {U64(0, 0), U64(0, 2), U64(1, 0), U64(1, 1), U64(2, -3), UINT64_MAX}
TickIntervals == {U64(0, 0), U64(0, 1), U64(0, 2), U64(1, 0), UINT64_MAX}

\* The pairs of the runs.  A deadline that is 2^63 or so behind the clock
\* takes a small interval 2^62 or more additions to catch up, and one that
\* starts near 2^63 takes as many additions of 2^64 - 1 to come down to 0:
\* the runs leave those out, and keep the pairs in which the deadline passes
\* the clock, or comes back to a value it had, within a few additions.
TickPairs ==
    {x \in TickClocks \X [next_expiry : TickDeadlines, interval : TickIntervals] :
        LET now == x[1]
            t == x[2]
        IN \/ t.interval \in {U64(0, 0), U64(1, 0)}
           \/ U64Less(now, t.next_expiry)
           \/ /\ t.interval[1] = 0 /\ t.interval # U64(0, 0)
              /\ t.next_expiry[1] = now[1]
              /\ U64Less(U64Add(now, t.interval), UINT64_MAX)
              /\ U64Less(now, U64Add(now, t.interval))
           \/ /\ t.interval = UINT64_MAX
              /\ t.next_expiry[1] = 0 /\ now # UINT64_MAX}

InitTick ==
    /\ pwm_pins = [i \in Slots |-> ZeroSlot]
    /\ pwm_mutex = 0
    /\ threads = [t \in Tids |-> NoThread]
    /\ gpio_map = TRUE
    /\ fsel = {}
    /\ level = {}
    /\ pc = [c \in Callers |-> "idle"]
    /\ call = [c \in Callers |-> NoCall]
    /\ ncalls = 0
    /\ ev = NoEv
    /\ \E x \in TickPairs : clock = x[1] /\ timer = x[2]
    /\ tpc = "idle"
    /\ tloc = NoTloc
    /\ tev = NoTev
    /\ set_at = NeverSet
    /\ polls = NoPolls
    /\ ClockIdle

\* one call of timer_tick
NextTick ==
    \/ tev = NoTev /\ TickEnter
    \/ TickAdd
    \/ TickReturn

SpecTick == InitTick /\ [][NextTick]_vars

\* the caller inside timer_tick keeps running
SpecTickFair == SpecTick /\ WF_vars(TickAdd) /\ WF_vars(TickReturn)

(* ---- simple_timer.h: millis, micros ---- *)
MS_PER_SEC == 1000
US_PER_SEC == 1000000
NS_PER_MS == 1000000
NS_PER_US == 1000
\* time_t is a 32-bit long on the __arm__ build
TIME_T_MAX == INT_MAX

\* the clock values of the runs: seconds around the uptimes at which
\* tv_sec * US_PER_SEC and tv_sec * MS_PER_SEC pass 2^31 and 2^32, and
\* nanoseconds around a microsecond, a millisecond and the end of a second
SecInputs == {0, 1, 2147, 2148, 4294, 4295, 2147483, 2147484, 4294967, 4294968}
NsecInputs == {0, 1000, 1000000, 2000000, 999999999}
TsInputs == {Timespec(sec, nsec) : sec \in SecInputs, nsec \in NsecInputs}

\* a is an earlier clock value than b
TsBefore(a, b) ==
    a.tv_sec < b.tv_sec \/ (a.tv_sec = b.tv_sec /\ a.tv_nsec < b.tv_nsec)

\* a * b in a 32-bit register, for 0 <= a < 2^31 and 0 <= b < 2^20: the
\* product of the 16-bit digits of a and the 10-bit digits of b, added up
\* modulo 2^32
MulWrap32(a, b) ==
    LET a1 == a \div 65536
        a0 == a % 65536
        bh == b \div 1024
        bl == b % 1024
        lo == ((a0 * bh) % 64) * 1024 + ((a0 * bl) % 65536)
        hi == ((a0 * bh) \div 64) + ((a0 * bl) \div 65536) + (lo \div 65536)
                + ((a1 * (b % 65536)) % 65536)
    IN Pack32(hi % 65536, lo % 65536)

\* the signed multiplication overflows: undefined behaviour
Overflows(sec, per) == sec > TIME_T_MAX \div per

\* an outcome of a computation: a value, or the process is stopped at the
\* overflow (a trapping build)
Value(v) == [trap |-> FALSE, val |-> v]
Trap(v) == [trap |-> TRUE, val |-> v]

\* ts.tv_sec * per, in time_t: the product; when it overflows, what the
\* multiply instruction leaves (the product modulo 2^32), or a trap
ProductOutcomes(sec, per) ==
    IF Overflows(sec, per) THEN {Value(MulWrap32(sec, per)), Trap(0)}
    ELSE {Value(sec * per)}

\* (uint64_t) of a 32-bit signed value: sign extension
SignExtend(r) == W64(IF r < 0 THEN -1 ELSE 0, r)

\* (uint64_t)(ts.tv_sec * per) + (uint64_t)(ts.tv_nsec / sub)
Convert(t, per, sub) ==
    {IF prod.trap THEN Trap(W64(0, 0))
     ELSE Value(W64Add(SignExtend(prod.val), W64(0, t.tv_nsec \div sub))) :
         prod \in ProductOutcomes(t.tv_sec, per)}

\* the values among the outcomes, and whether a trap is among them
Returned(outcomes) == {o.val : o \in {x \in outcomes : ~x.trap}}
MayTrap(outcomes) == \E o \in outcomes : o.trap

\* what millis() and micros() can return when the clock reads t
MillisAt(t) == Convert(t, MS_PER_SEC, NS_PER_MS)
MicrosAt(t) == Convert(t, US_PER_SEC, NS_PER_US)

InitClock ==
    /\ pwm_pins = [i \in Slots |-> ZeroSlot]
    /\ pwm_mutex = 0
    /\ threads = [t \in Tids |-> NoThread]
    /\ gpio_map = TRUE
    /\ fsel = {}
    /\ level = {}
    /\ pc = [c \in Callers |-> "idle"]
    /\ call = [c \in Callers |-> NoCall]
    /\ ncalls = 0
    /\ ev = NoEv
    /\ clock = U64(0, 0)
    /\ timer = NoTimer
    /\ tpc = "idle"
    /\ tloc = NoTloc
    /\ tev = NoTev
    /\ set_at = NeverSet
    /\ polls = NoPolls
    /\ ts = Boot
    /\ seen = [millis |-> NoReading, micros |-> NoReading]
    /\ dpc = "idle"
    /\ dloc = NoDloc
    /\ cev = NoCev
    /\ HwIdle

\* the timer is not in use
svars == <<clock, timer, tpc, tloc, tev, set_at, polls>>

\* the clock values after t, and the first of them
Later(t) == {n \in TsInputs : TsBefore(t, n)}
NextTs(t) == CHOOSE n \in Later(t) : \A m \in Later(t) : ~TsBefore(m, n)

\* CLOCK_MONOTONIC moves on to its next value
ClockTick ==
    /\ Later(ts) # {}
    /\ ts' = NextTs(ts)
    /\ UNCHANGED <<pvars, svars, seen, dpc, dloc, cev>>

\* a call of millis() that returns
CallMillis ==
    /\ dpc = "idle"
    /\ \E v \in Returned(MillisAt(ts)) :
          /\ seen' = [seen EXCEPT !.millis = [at |-> ts, val |-> v]]
          /\ cev' = [NoCev EXCEPT !.act = "millis"]
    /\ UNCHANGED <<pvars, svars, ts, dpc, dloc>>

\* a call of micros() that returns
CallMicros ==
    /\ dpc = "idle"
    /\ \E v \in Returned(MicrosAt(ts)) :
          /\ seen' = [seen EXCEPT !.micros = [at |-> ts, val |-> v]]
          /\ cev' = [NoCev EXCEPT !.act = "micros"]
    /\ UNCHANGED <<pvars, svars, ts, dpc, dloc>>

\* a call of millis() or micros() in which the multiplication traps
CallTrap ==
    /\ dpc = "idle"
    /\ MayTrap(MillisAt(ts) \cup MicrosAt(ts))
    /\ dpc' = "trapped"
    /\ cev' = [NoCev EXCEPT !.act = "trap"]
    /\ UNCHANGED <<pvars, svars, ts, seen, dloc>>

NextClock ==
    \/ ClockTick
    \/ CallMillis
    \/ CallMicros
    \/ CallTrap

SpecClock == InitClock /\ [][NextClock]_vars

(* ---- simple_timer.h: delay_ms, delay_us ---- *)
\* the delays asked for, in milliseconds or microseconds
DelayInputs == 0..MaxDelay
DelayUnits == {"delay_ms", "delay_us"}
LastSec == CHOOSE sec \in SecInputs : \A other \in SecInputs : other <= sec

\* millis() in delay_ms, micros() in delay_us
ReadFor(unit, t) == IF unit = "delay_ms" THEN MillisAt(t) ELSE MicrosAt(t)

\* uint64_t start = millis();  The clock of the runs goes on for a second
\* or more after a delay begins.
DelayCall(unit, arg) ==
    /\ dpc = "idle"
    /\ ts.tv_sec < LastSec
    /\ \E v \in Returned(ReadFor(unit, ts)) :
          dloc' = [start |-> v, arg |-> arg, at |-> ts]
    /\ dpc' = unit
    /\ cev' = [act |-> "delay_call", arg |-> arg, from |-> ts]
    /\ UNCHANGED <<pvars, svars, ts, seen>>

\* millis() - start < ms, in uint64_t
DelayTest(cur, start, arg) == W64Less(W64Sub(cur, start), W64(0, arg))

\* one pass of the busy wait: the test holds
DelaySpin ==
    /\ dpc \in DelayUnits
    /\ \E v \in Returned(ReadFor(dpc, ts)) : DelayTest(v, dloc.start, dloc.arg)
    /\ cev' = [act |-> "delay_spin", arg |-> dloc.arg, from |-> dloc.at]
    /\ UNCHANGED <<pvars, svars, ts, seen, dpc, dloc>>

\* the test fails: the delay returns
DelayReturn ==
    /\ dpc \in DelayUnits
    /\ \E v \in Returned(ReadFor(dpc, ts)) : ~DelayTest(v, dloc.start, dloc.arg)
    /\ dpc' = "idle"
    /\ dloc' = NoDloc
    /\ cev' = [act |-> IF dpc = "delay_ms" THEN "delay_ms_ret" ELSE "delay_us_ret",
               arg |-> dloc.arg, from |-> dloc.at]
    /\ UNCHANGED <<pvars, svars, ts, seen>>

\* the multiplication in millis() / micros() traps, at entry or in the loop
DelayTrap ==
    /\ \/ dpc \in DelayUnits /\ MayTrap(ReadFor(dpc, ts))
       \/ dpc = "idle" /\ ts.tv_sec < LastSec /\ MayTrap(MillisAt(ts) \cup MicrosAt(ts))
    /\ dpc' = "trapped"
    /\ cev' = [act |-> "trap", arg |-> dloc.arg, from |-> dloc.at]
    /\ UNCHANGED <<pvars, svars, ts, seen, dloc>>

NextDelay ==
    \/ ClockTick
    \/ \E unit \in DelayUnits, arg \in DelayInputs : DelayCall(unit, arg)
    \/ DelaySpin
    \/ DelayReturn
    \/ DelayTrap

SpecDelay == InitClock /\ [][NextDelay]_vars

\* the clock keeps advancing and the delaying thread keeps running
SpecDelayFair ==
    SpecDelay /\ WF_vars(ClockTick) /\ WF_vars(DelaySpin) /\ WF_vars(DelayReturn)

(* ---- rpi_gpio.h called directly, on either build ---- *)
ALT0 == 4
ALT5 == 2

\* the pins, modes, functions and levels a caller passes
GpioPinInputs == {INT_MIN, -1, GPIO_PIN_MIN, GPIO_PIN_MAX, 54, INT_MAX}
ModeInputs == {INPUT, OUTPUT}
FunctionInputs == {ALT0, ALT5}
LevelInputs == {LOW, HIGH}
\* the pins with something wired to them
WiredPins == {GPIO_PIN_MIN, GPIO_PIN_MAX}

\* the PWM engine, simple_timer.h and the clock are not in use
evars == <<pwm_pins, pwm_mutex, threads, pc, call, ncalls, ev>>
\* rpi_hw_pwm.h is not in use
wvars == <<pwm_map, clk_map, mem_fd_hw, pwm_regs, clk_regs>>

\* val &= ~(0b111 << bit_offset); val |= (function << bit_offset);
gpio_set_function(fs, pin, function) ==
    IF ~ValidPin(pin) THEN fs
    ELSE IF ~gpio_map THEN fs
    ELSE {e \in fs : e[1] # pin} \cup (IF function # 0 THEN {<<pin, function>>} ELSE {})

\* the bit GPLEVn holds for a pin: its latch when the pin is an output, else
\* what the circuit drives
PinLevel(pin) ==
    IF <<pin, OUTPUT>> \in fsel THEN LevelOf(pin)
    ELSE IF pin \in ext THEN HIGH ELSE LOW

digital_read(pin) ==
    IF ~ValidPin(pin) THEN LOW
    ELSE IF ~gpio_map THEN LOW
    ELSE PinLevel(pin)

\* the call gets past the range check and, on the Raspberry Pi, past the
\* test of gpio_map
Reaches(pin) == ValidPin(pin) /\ platform = "RPI" /\ gpio_map
\* the host build prints a line once the pin has passed the range check
MockLine(pin) == IF ValidPin(pin) /\ platform = "HOST" THEN "MOCK" ELSE ""
Access(pin, reg) == IF Reaches(pin) THEN {reg} ELSE {}

\* a load or store through MAP_FAILED ((void *)-1 plus an offset): the process
\* faults, or the access lands in whatever happens to be mapped there
ThroughBad(act, pin, arg, rets) ==
    /\ UNCHANGED <<gpio_map, fsel, level, mem_fd, gpio_bad, ext, inited, platform, wvars>>
    /\ \/ /\ gpc' = "crashed"
          /\ gev' = Gev(act, pin, arg, 0, "", {"fault"}, {})
       \/ /\ gpc' = gpc
          /\ \E r \in rets : gev' = Gev(act, pin, arg, r, "", {"stray"}, {})

\* what open() and mmap() can do to gpio_init
InitOutcomes == {"ok", "open_fails", "mmap_fails"}

GpioInit(o) ==
    /\ gpc = "run"
    /\ IF platform = "HOST"
       THEN /\ o = "ok"
            /\ inited' = [inited EXCEPT !.gpio = "ok"]
            /\ gev' = Gev("gpio_init", 0, 0, 0, "MOCK", {}, {})
            /\ UNCHANGED <<gpio_map, gpio_bad, mem_fd>>
       ELSE CASE o = "open_fails" ->
                 /\ mem_fd' = "-1"
                 /\ inited' = [inited EXCEPT !.gpio = "failed"]
                 /\ gev' = Gev("gpio_init", 0, 0, -1, "perror", {}, {})
                 /\ UNCHANGED <<gpio_map, gpio_bad>>
              [] o = "mmap_fails" ->
                 /\ mem_fd' = "stale"
                 /\ gpio_map' = TRUE
                 /\ gpio_bad' = TRUE
                 /\ inited' = [inited EXCEPT !.gpio = "failed"]
                 /\ gev' = Gev("gpio_init", 0, 0, -1, "perror", {}, {"close"})
              [] OTHER ->
                 /\ mem_fd' = "open"
                 /\ gpio_map' = TRUE
                 /\ gpio_bad' = FALSE
                 /\ inited' = [inited EXCEPT !.gpio = "ok"]
                 /\ gev' = Gev("gpio_init", 0, 0, 0, "", {}, {})
    /\ UNCHANGED <<fsel, level, ext, platform, gpc, wvars, evars, svars, cvars>>

\* what gpio_cleanup hands back: munmap of a live mapping, munmap of
\* MAP_FAILED, close of an open descriptor, close of a number closed before
CleanupReleases ==
    (IF gpio_map THEN {IF gpio_bad THEN "munmap_MAP_FAILED" ELSE "munmap"} ELSE {})
    \cup (IF mem_fd = "-1" THEN {} ELSE {IF mem_fd = "stale" THEN "close_again" ELSE "close"})

GpioCleanup ==
    /\ gpc = "run"
    /\ IF platform = "HOST"
       THEN /\ gev' = Gev("gpio_cleanup", 0, 0, 0, "MOCK", {}, {})
            /\ UNCHANGED <<gpio_map, gpio_bad, mem_fd>>
       ELSE /\ gpio_map' = FALSE
            /\ gpio_bad' = FALSE
            /\ mem_fd' = "-1"
            /\ gev' = Gev("gpio_cleanup", 0, 0, 0, "", {}, CleanupReleases)
    /\ inited' = [inited EXCEPT !.gpio = "no"]
    /\ UNCHANGED <<fsel, level, ext, platform, gpc, wvars, evars, svars, cvars>>

PinMode(pin, mode) ==
    /\ gpc = "run"
    /\ IF Reaches(pin) /\ gpio_bad
       THEN ThroughBad("pin_mode", pin, mode, {0})
       ELSE /\ fsel' = pin_mode(fsel, pin, mode)
            /\ gev' = Gev("pin_mode", pin, mode, 0, MockLine(pin), Access(pin, "GPFSEL"), {})
            /\ UNCHANGED <<gpio_map, level, mem_fd, gpio_bad, ext, inited, platform, gpc, wvars>>
    /\ UNCHANGED <<evars, svars, cvars>>

GpioSetFunction(pin, function) ==
    /\ gpc = "run"
    /\ IF Reaches(pin) /\ gpio_bad
       THEN ThroughBad("gpio_set_function", pin, function, {0})
       ELSE /\ fsel' = gpio_set_function(fsel, pin, function)
            /\ gev' = Gev("gpio_set_function", pin, function, 0, MockLine(pin),
                          Access(pin, "GPFSEL"), {})
            /\ UNCHANGED <<gpio_map, level, mem_fd, gpio_bad, ext, inited, platform, gpc, wvars>>
    /\ UNCHANGED <<evars, svars, cvars>>

DigitalWrite(pin, value) ==
    /\ gpc = "run"
    /\ IF Reaches(pin) /\ gpio_bad
       THEN ThroughBad("digital_write", pin, value, {0})
       ELSE /\ level' = digital_write(level, pin, value)
            /\ gev' = Gev("digital_write", pin, value, 0, MockLine(pin),
                          Access(pin, IF value = HIGH THEN "GPSET" ELSE "GPCLR"), {})
            /\ UNCHANGED <<gpio_map, fsel, mem_fd, gpio_bad, ext, inited, platform, gpc, wvars>>
    /\ UNCHANGED <<evars, svars, cvars>>

DigitalRead(pin) ==
    /\ gpc = "run"
    /\ IF Reaches(pin) /\ gpio_bad
       THEN ThroughBad("digital_read", pin, 0, {LOW, HIGH})
       ELSE /\ gev' = Gev("digital_read", pin, 0, digital_read(pin), MockLine(pin),
                          Access(pin, "GPLEV"), {})
            /\ UNCHANGED <<gpio_map, fsel, level, mem_fd, gpio_bad, ext, inited, platform, gpc, wvars>>
    /\ UNCHANGED <<evars, svars, cvars>>

\* the circuit on a wired pin changes what it drives
ExtChange(pin) ==
    /\ gpc = "run"
    /\ ext' = IF pin \in ext THEN ext \ {pin} ELSE ext \cup {pin}
    /\ UNCHANGED <<gpio_map, fsel, level, mem_fd, gpio_bad, inited, platform, gev, gpc,
                   wvars, evars, svars, cvars>>

\* a fresh process on either build: nothing opened, nothing mapped
InitGpio ==
    /\ pwm_pins = [i \in Slots |-> ZeroSlot]
    /\ pwm_mutex = 0
    /\ threads = [t \in Tids |-> NoThread]
    /\ gpio_map = FALSE
    /\ fsel = {}
    /\ level = {}
    /\ pc = [c \in Callers |-> "idle"]
    /\ call = [c \in Callers |-> NoCall]
    /\ ncalls = 0
    /\ ev = NoEv
    /\ clock = U64(0, 0)
    /\ timer = NoTimer
    /\ tpc = "idle"
    /\ tloc = NoTloc
    /\ tev = NoTev
    /\ set_at = NeverSet
    /\ polls = NoPolls
    /\ ts = Boot
    /\ seen = [millis |-> NoReading, micros |-> NoReading]
    /\ dpc = "idle"
    /\ dloc = NoDloc
    /\ cev = NoCev
    /\ platform \in {"RPI", "HOST"}
    /\ mem_fd = "-1"
    /\ gpio_bad = FALSE
    /\ ext = {}
    /\ inited = [gpio |-> "no", hpwm |-> "no"]
    /\ pwm_map = "NULL"
    /\ clk_map = "NULL"
    /\ mem_fd_hw = "-1"
    /\ pwm_regs = NoPwmRegs
    /\ clk_regs = NoClkRegs
    /\ gev = NoGev
    /\ gpc = "run"
    /\ hcalls = 0

NextGpio ==
    /\ UNCHANGED hcalls
    /\ \/ \E o \in InitOutcomes : GpioInit(o)
       \/ GpioCleanup
       \/ \E pin \in GpioPinInputs, mode \in ModeInputs : PinMode(pin, mode)
       \/ \E pin \in GpioPinInputs, function \in FunctionInputs : GpioSetFunction(pin, function)
       \/ \E pin \in GpioPinInputs, value \in LevelInputs : DigitalWrite(pin, value)
       \/ \E pin \in GpioPinInputs : DigitalRead(pin)
       \/ \E pin \in WiredPins : ExtChange(pin)

SpecGpio == InitGpio /\ [][NextGpio]_vars

(* ---- rpi_hw_pwm.h ---- *)
HPWM_DUTY_MIN == 0
HPWM_DUTY_MAX == 1000
PWM_BASE_FREQ_HZ == 1000000
CM_SRC_PLLD == 6
CM_DIV_VALUE == 54

HPWM_CLAMP_DUTY(d) ==
    IF d < HPWM_DUTY_MIN THEN HPWM_DUTY_MIN
    ELSE IF d > HPWM_DUTY_MAX THEN HPWM_DUTY_MAX ELSE d

\* mutant: pin 13 on channel 0
hpwm_get_channel_13On0(pin) ==
    CASE pin = 12 -> [ok |-> TRUE, channel |-> 0, alt_func |-> ALT0]
      [] pin = 13 -> [ok |-> TRUE, channel |-> 0, alt_func |-> ALT0]
      [] pin = 18 -> [ok |-> TRUE, channel |-> 0, alt_func |-> ALT5]
      [] pin = 19 -> [ok |-> TRUE, channel |-> 1, alt_func |-> ALT5]
      [] OTHER -> [ok |-> FALSE, channel |-> 0, alt_func |-> 0]

\* the switch of hpwm_get_channel: its return value and its two outputs
hpwm_get_channel(pin) ==
    CASE pin = 12 -> [ok |-> TRUE, channel |-> 0, alt_func |-> ALT0]
      [] pin = 13 -> [ok |-> TRUE, channel |-> 1, alt_func |-> ALT0]
      [] pin = 18 -> [ok |-> TRUE, channel |-> 0, alt_func |-> ALT5]
      [] pin = 19 -> [ok |-> TRUE, channel |-> 1, alt_func |-> ALT5]
      [] OTHER -> [ok |-> FALSE, channel |-> 0, alt_func |-> 0]

\* the arguments a caller passes to hpwm_set
HpwmPinInputs == {12, 13, 17, 18, 19}
HpwmFreqInputs == {INT_MIN, 0, 50, 1000}
HpwmDutyInputs == {0, 500, INT_MAX}
\* the pin the same caller uses through rpi_gpio.h
HpwmGpioPin == 18

\* rpi_gpio.h's own state
gvars == <<gpio_map, mem_fd, gpio_bad>>

\* what open() and the two mmap() calls can do to hpwm_init
HpwmInitOutcomes == {"ok", "open_fails", "mmap_pwm_fails", "mmap_clk_fails"}

HpwmInit(o) ==
    /\ gpc = "run"
    /\ IF platform = "HOST"
       THEN /\ o = "ok"
            /\ inited' = [inited EXCEPT !.hpwm = "ok"]
            /\ gev' = Gev("hpwm_init", 0, 0, 0, "MOCK", {}, {})
            /\ UNCHANGED wvars
       ELSE CASE o = "open_fails" ->
                 /\ mem_fd_hw' = "-1"
                 /\ inited' = [inited EXCEPT !.hpwm = "failed"]
                 /\ gev' = Gev("hpwm_init", 0, 0, -1, "perror", {}, {})
                 /\ UNCHANGED <<pwm_map, clk_map, pwm_regs, clk_regs>>
              [] o = "mmap_pwm_fails" ->
                 /\ mem_fd_hw' = "stale"
                 /\ pwm_map' = "MAP_FAILED"
                 /\ inited' = [inited EXCEPT !.hpwm = "failed"]
                 /\ gev' = Gev("hpwm_init", 0, 0, -1, "perror", {}, {"close"})
                 /\ UNCHANGED <<clk_map, pwm_regs, clk_regs>>
              [] o = "mmap_clk_fails" ->
                 /\ mem_fd_hw' = "stale"
                 /\ pwm_map' = "unmapped"
                 /\ clk_map' = "MAP_FAILED"
                 /\ inited' = [inited EXCEPT !.hpwm = "failed"]
                 /\ gev' = Gev("hpwm_init", 0, 0, -1, "perror", {}, {"munmap_pwm", "close"})
                 /\ UNCHANGED <<pwm_regs, clk_regs>>
              [] OTHER ->
                 /\ mem_fd_hw' = "open"
                 /\ pwm_map' = "mapped"
                 /\ clk_map' = "mapped"
                 /\ clk_regs' = [ctl |-> CM_SRC_PLLD, div |-> CM_DIV_VALUE]
                 /\ inited' = [inited EXCEPT !.hpwm = "ok"]
                 /\ gev' = Gev("hpwm_init", 0, 0, 0, "", {"CM_PWMCTL", "CM_PWMDIV"}, {})
                 /\ UNCHANGED pwm_regs
    /\ UNCHANGED <<gvars, fsel, level, ext, platform, gpc, evars, svars, cvars>>

\* uint32_t range = PWM_BASE_FREQ_HZ / freq_hz;
\* uint32_t data = (uint64_t)range * duty_per_mille / HPWM_DUTY_MAX;
HpwmRange(freq_hz) == PWM_BASE_FREQ_HZ \div freq_hz
HpwmData(range, duty_per_mille) == (range * duty_per_mille) \div HPWM_DUTY_MAX

\* a store to a register of the PWM block: PWM_CTL &= ~clear, PWM_CTL |= set,
\* or RNGn / DATn = val
CtlStore(clear, set) == [reg |-> "PWM_CTL", n |-> 0, clear |-> clear, set |-> set, val |-> 0]
ValStore(reg, n, val) == [reg |-> reg, n |-> n, clear |-> {}, set |-> {}, val |-> val]
HpwmStore(regs, st) ==
    CASE st.reg = "PWM_CTL" -> [regs EXCEPT !.ctl = (@ \ st.clear) \cup st.set]
      [] st.reg = "PWM_RNG" -> [regs EXCEPT !.rng[st.n] = st.val]
      [] st.reg = "PWM_DAT" -> [regs EXCEPT !.dat[st.n] = st.val]

\* mutant: range and data are written before the channel is disabled
HpwmStores_WritesFirst(channel, range, data) ==
    IF channel = 0
    THEN <<ValStore("PWM_RNG", 1, range), ValStore("PWM_DAT", 1, data),
           CtlStore({"PWEN1"}, {}), CtlStore({}, {"MSEN1", "PWEN1"})>>
    ELSE <<ValStore("PWM_RNG", 2, range), ValStore("PWM_DAT", 2, data),
           CtlStore({"PWEN2"}, {}), CtlStore({}, {"MSEN2", "PWEN2"})>>

\* the stores of the channel's branch, in program order
HpwmStores(channel, range, data) ==
    IF channel = 0
    THEN <<CtlStore({"PWEN1"}, {}),
           ValStore("PWM_RNG", 1, range), ValStore("PWM_DAT", 1, data),
           CtlStore({}, {"MSEN1", "PWEN1"})>>
    ELSE <<CtlStore({"PWEN2"}, {}),
           ValStore("PWM_RNG", 2, range), ValStore("PWM_DAT", 2, data),
           CtlStore({}, {"MSEN2", "PWEN2"})>>

\* the registers before the first store and after each of the four
HpwmDuring(regs, stores) ==
    LET r1 == HpwmStore(regs, stores[1])
        r2 == HpwmStore(r1, stores[2])
        r3 == HpwmStore(r2, stores[3])
        r4 == HpwmStore(r3, stores[4])
    IN <<regs, r1, r2, r3, r4>>

\* the channel's branch: PWENn cleared, RNGn and DATn written, MSENn | PWENn set
HpwmProgram(regs, channel, range, data) ==
    HpwmDuring(regs, HpwmStores(channel, range, data))[5]
HpwmTouched(channel) ==
    IF channel = 0 THEN {"PWM_CTL", "PWM_RNG1", "PWM_DAT1"}
    ELSE {"PWM_CTL", "PWM_RNG2", "PWM_DAT2"}

\* mutant: hpwm_set without its test of pwm_map and clk_map
HpwmSetReturnsEarly_NoNullTest(pin, freq_hz) ==
    \/ freq_hz <= 0
    \/ platform = "RPI" /\ ~hpwm_get_channel(pin).ok

\* hpwm_set returns before its first access: freq_hz <= 0, a NULL pointer
\* (on the Raspberry Pi), or a pin that is no hardware PWM pin
HpwmSetReturnsEarly(pin, freq_hz) ==
    \/ freq_hz <= 0
    \/ platform = "RPI" /\ (pwm_map = "NULL" \/ clk_map = "NULL" \/ ~hpwm_get_channel(pin).ok)

HpwmSet(pin, freq_hz, duty_per_mille) ==
    /\ gpc = "run"
    /\ LET duty == HPWM_CLAMP_DUTY(duty_per_mille)
           ch == hpwm_get_channel(pin)
           range == HpwmRange(freq_hz)
       IN CASE HpwmSetReturnsEarly(pin, freq_hz) ->
               /\ gev' = Gev("hpwm_set", pin, freq_hz, 0, "", {}, {})
               /\ UNCHANGED <<fsel, pwm_regs, gpc>>
            [] ~HpwmSetReturnsEarly(pin, freq_hz) /\ platform = "HOST" ->
               /\ gev' = Gev("hpwm_set", pin, freq_hz, 0, "MOCK", {}, {})
               /\ UNCHANGED <<fsel, pwm_regs, gpc>>
            [] OTHER ->
               \* gpio_set_function(pin, alt_func), then the PWM block
               \* each block is written through its own pointer; a pointer
               \* that maps nothing faults there or lands elsewhere
               LET gbad == gpio_map /\ gpio_bad
                   pbad == pwm_map # "mapped"
                   fsel_after == IF gbad THEN fsel
                                 ELSE gpio_set_function(fsel, pin, ch.alt_func)
                   regs_after == IF pbad THEN pwm_regs
                                 ELSE HpwmProgram(pwm_regs, ch.channel, range,
                                                  HpwmData(range, duty))
                   touched == (IF gbad THEN {"stray"} ELSE Access(pin, "GPFSEL"))
                              \cup (IF pbad THEN {"stray"} ELSE HpwmTouched(ch.channel))
               IN \/ /\ gbad \/ pbad
                     /\ gpc' = "crashed"
                     /\ fsel' = IF gbad THEN fsel ELSE fsel_after
                     /\ pwm_regs' = pwm_regs
                     /\ gev' = Gev("hpwm_set", pin, freq_hz, 0, "", {"fault"}, {})
                  \/ /\ gpc' = gpc
                     /\ fsel' = fsel_after
                     /\ pwm_regs' = regs_after
                     /\ gev' = [Gev("hpwm_set", pin, freq_hz, 0, "", touched, {})
                                EXCEPT !.duty = duty_per_mille]
    /\ UNCHANGED <<gvars, level, ext, inited, platform, pwm_map, clk_map, mem_fd_hw,
                   clk_regs, evars, svars, cvars>>

\* what hpwm_stop hands back, by pointer and descriptor
StopReleases ==
    (CASE pwm_map = "mapped" -> {"munmap_pwm"}
       [] pwm_map = "unmapped" -> {"munmap_pwm_again"}
       [] pwm_map = "MAP_FAILED" -> {"munmap_MAP_FAILED"}
       [] OTHER -> {})
    \cup (CASE clk_map = "mapped" -> {"munmap_clk"}
            [] clk_map = "MAP_FAILED" -> {"munmap_MAP_FAILED"}
            [] OTHER -> {})
    \cup (CASE mem_fd_hw = "open" -> {"close"}
            [] mem_fd_hw = "stale" -> {"close_again"}
            [] OTHER -> {})

HpwmStop ==
    /\ gpc = "run"
    /\ IF platform = "HOST"
       THEN /\ gev' = Gev("hpwm_stop", 0, 0, 0, "MOCK", {}, {})
            /\ UNCHANGED <<wvars, gpc>>
       ELSE IF pwm_map \in {"MAP_FAILED", "unmapped"}
       THEN \* pwm_map[PWM_CTL] = 0 through a pointer that maps nothing
            \/ /\ gpc' = "crashed"
               /\ gev' = Gev("hpwm_stop", 0, 0, 0, "", {"fault"}, {})
               /\ UNCHANGED wvars
            \/ /\ gpc' = gpc
               /\ gev' = Gev("hpwm_stop", 0, 0, 0, "", {"stray"}, StopReleases)
               /\ pwm_map' = "NULL"
               /\ clk_map' = "NULL"
               /\ mem_fd_hw' = "-1"
               /\ UNCHANGED <<pwm_regs, clk_regs>>
       ELSE /\ gpc' = gpc
            /\ gev' = Gev("hpwm_stop", 0, 0, 0, "",
                          IF pwm_map = "mapped" THEN {"PWM_CTL"} ELSE {}, StopReleases)
            /\ pwm_regs' = IF pwm_map = "mapped" THEN [pwm_regs EXCEPT !.ctl = {}] ELSE pwm_regs
            /\ pwm_map' = "NULL"
            /\ clk_map' = "NULL"
            /\ mem_fd_hw' = "-1"
            /\ UNCHANGED clk_regs
    /\ inited' = [inited EXCEPT !.hpwm = "no"]
    /\ UNCHANGED <<gvars, fsel, level, ext, platform, evars, svars, cvars>>

\* one caller of both headers, a bounded number of calls
NextHpwm ==
    /\ hcalls < MaxHwCalls
    /\ hcalls' = hcalls + 1
    /\ \/ \E o \in InitOutcomes : GpioInit(o)
       \/ GpioCleanup
       \/ \E mode \in ModeInputs : PinMode(HpwmGpioPin, mode)
       \/ \E function \in FunctionInputs : GpioSetFunction(HpwmGpioPin, function)
       \/ \E value \in LevelInputs : DigitalWrite(HpwmGpioPin, value)
       \/ DigitalRead(HpwmGpioPin)
       \/ \E o \in HpwmInitOutcomes : HpwmInit(o)
       \/ \E pin \in HpwmPinInputs, f \in HpwmFreqInputs, d \in HpwmDutyInputs : HpwmSet(pin, f, d)
       \/ HpwmStop

SpecHpwm == InitGpio /\ [][NextHpwm]_vars

(* ---- hpwm_set, call after call ---- *)
\* gpio_init() and hpwm_init() have returned 0, on either build
InitHpwmSet ==
    /\ pwm_pins = [i \in Slots |-> ZeroSlot]
    /\ pwm_mutex = 0
    /\ threads = [t \in Tids |-> NoThread]
    /\ fsel = {}
    /\ level = {}
    /\ pc = [c \in Callers |-> "idle"]
    /\ call = [c \in Callers |-> NoCall]
    /\ ncalls = 0
    /\ ev = NoEv
    /\ clock = U64(0, 0)
    /\ timer = NoTimer
    /\ tpc = "idle"
    /\ tloc = NoTloc
    /\ tev = NoTev
    /\ set_at = NeverSet
    /\ polls = NoPolls
    /\ ts = Boot
    /\ seen = [millis |-> NoReading, micros |-> NoReading]
    /\ dpc = "idle"
    /\ dloc = NoDloc
    /\ cev = NoCev
    /\ platform \in {"RPI", "HOST"}
    /\ gpio_map = (platform = "RPI")
    /\ mem_fd = IF platform = "RPI" THEN "open" ELSE "-1"
    /\ gpio_bad = FALSE
    /\ ext = {}
    /\ inited = [gpio |-> "ok", hpwm |-> "ok"]
    /\ pwm_map = IF platform = "RPI" THEN "mapped" ELSE "NULL"
    /\ clk_map = IF platform = "RPI" THEN "mapped" ELSE "NULL"
    /\ mem_fd_hw = IF platform = "RPI" THEN "open" ELSE "-1"
    /\ pwm_regs = NoPwmRegs
    /\ clk_regs = IF platform = "RPI" THEN [ctl |-> CM_SRC_PLLD, div |-> CM_DIV_VALUE]
                  ELSE NoClkRegs
    /\ gev = NoGev
    /\ gpc = "run"
    /\ hcalls = 0

\* a bounded number of hpwm_set calls
NextHpwmSet ==
    /\ hcalls < MaxHwCalls
    /\ hcalls' = hcalls + 1
    /\ \E pin \in HpwmPinInputs, f \in HpwmFreqInputs, d \in HpwmDutyInputs : HpwmSet(pin, f, d)

SpecHpwmSet == InitHpwmSet /\ [][NextHpwmSet]_vars

(* ---- gpio_cleanup while a worker runs ---- *)
\* One caller starts software PWM on a pin and then calls gpio_cleanup and
\* pwm_stop, in either order.  The worker calls digital_write with no lock
\* held, and gpio_cleanup takes none: the statements of the two are steps of
\* their own here.  The mapping is gone from the munmap on (gpio_bad: the
\* pointer is not NULL and points at no mapping) and gpio_map is NULL from
\* the assignment after it.
TeardownCaller == 1
TeardownPin == 18

\* the GPIO block is mapped at the address gpio_map holds
Mapped == gpio_map /\ ~gpio_bad

\* gpio_cleanup: if (gpio_map) munmap((void*)gpio_map, BLOCK_SIZE);
CleanupUnmap(c) ==
    /\ pc[c] = "idle"
    /\ pc' = [pc EXCEPT ![c] = "cleanup_unmapped"]
    /\ gpio_bad' = gpio_map
    /\ ev' = Ev(c, NoTid, "cleanup_munmap", 0, 0)
    /\ gev' = Gev("gpio_cleanup", 0, 0, 0, "", {},
                  IF gpio_map THEN {IF gpio_bad THEN "munmap_MAP_FAILED" ELSE "munmap"} ELSE {})
    /\ UNCHANGED <<svars, cvars, platform, mem_fd, ext, inited, wvars, gpc, hcalls,
                   pwm_pins, pwm_mutex, threads, gpio_map, fsel, level, call, ncalls>>

\* gpio_cleanup: gpio_map = NULL; if (mem_fd >= 0) { close(mem_fd); mem_fd = -1; }
CleanupClose(c) ==
    /\ pc[c] = "cleanup_unmapped"
    /\ pc' = [pc EXCEPT ![c] = "idle"]
    /\ gpio_map' = FALSE
    /\ gpio_bad' = FALSE
    /\ mem_fd' = "-1"
    /\ inited' = [inited EXCEPT !.gpio = "no"]
    /\ ev' = Ev(c, NoTid, "cleanup_done", 0, 0)
    /\ gev' = Gev("gpio_cleanup", 0, 0, 0, "", {},
                  gev.rel \cup (IF mem_fd = "-1" THEN {}
                                ELSE {IF mem_fd = "stale" THEN "close_again" ELSE "close"}))
    /\ UNCHANGED <<svars, cvars, platform, ext, wvars, gpc, hcalls,
                   pwm_pins, pwm_mutex, threads, fsel, level, call, ncalls>>

\* the worker is at a digital_write(p->pin, value) of its cycle
AtWrite(t) == WorkerAt(t, "first") \/ WorkerAt(t, "second")
AtStore(t) == WorkerAt(t, "first_store") \/ WorkerAt(t, "second_store")
\* the value it writes there
WriteValue(t) ==
    IF threads[t].wpc \in {"first", "first_store"} THEN FirstLevel(threads[t].d) ELSE LOW
\* the argument of the usleep after it
WriteSleep(t) ==
    IF threads[t].wpc \in {"first", "first_store"}
    THEN FirstSleep(threads[t].period, threads[t].d)
    ELSE off_time(threads[t].period, threads[t].d)
\* where the worker is after the write and the usleep
PastWrite(t) ==
    IF threads[t].wpc \in {"first", "first_store"} /\ TwoPhase(threads[t].d)
    THEN [threads[t] EXCEPT !.wpc = "second"]
    ELSE [threads[t] EXCEPT !.wpc = "top", !.d = 0, !.period = 0]

\* digital_write: the range test, and if (!gpio_map) return; finding the
\* pointer NULL: nothing is written
WorkerSkip(t) ==
    LET p == pwm_pins[threads[t].slot] IN
    /\ AtWrite(t)
    /\ ~ValidPin(p.pin) \/ ~gpio_map
    /\ threads' = [threads EXCEPT ![t] = PastWrite(t)]
    /\ ev' = [Ev(0, t, "w_skip", p.pin, WriteValue(t)) EXCEPT !.us = WriteSleep(t)]
    /\ UNCHANGED <<tvars, pwm_pins, pwm_mutex, gpio_map, fsel, level, pc, call, ncalls>>

\* digital_write: if (!gpio_map) return; finding the pointer not NULL
WorkerTest(t) ==
    LET p == pwm_pins[threads[t].slot] IN
    /\ AtWrite(t)
    /\ ValidPin(p.pin) /\ gpio_map
    /\ threads' = [threads EXCEPT ![t].wpc = IF @ = "first" THEN "first_store" ELSE "second_store"]
    /\ ev' = Ev(0, t, "w_test", p.pin, WriteValue(t))
    /\ UNCHANGED <<tvars, pwm_pins, pwm_mutex, gpio_map, fsel, level, pc, call, ncalls>>

\* digital_write: *set_reg = (1 << shift); or *clr_reg = (1 << shift); and
\* the usleep after the call, the block still being mapped
WorkerStore(t) ==
    LET p == pwm_pins[threads[t].slot] IN
    /\ AtStore(t)
    /\ Mapped
    /\ level' = IF WriteValue(t) = HIGH THEN level \cup {p.pin} ELSE level \ {p.pin}
    /\ threads' = [threads EXCEPT ![t] = PastWrite(t)]
    /\ ev' = [Ev(0, t, "w_write", p.pin, WriteValue(t)) EXCEPT !.us = WriteSleep(t)]
    /\ UNCHANGED <<tvars, pwm_pins, pwm_mutex, gpio_map, fsel, pc, call, ncalls>>

\* the same store after the munmap: the address is not mapped and the
\* process is killed by SIGSEGV, or something else has been mapped there
\* and takes the store
WorkerStoreUnmapped(t) ==
    LET p == pwm_pins[threads[t].slot] IN
    /\ AtStore(t)
    /\ ~Mapped
    /\ \/ /\ gpc' = "crashed"
          /\ ev' = Ev(0, t, "w_fault", p.pin, WriteValue(t))
          /\ UNCHANGED threads
       \/ /\ gpc' = gpc
          /\ threads' = [threads EXCEPT ![t] = PastWrite(t)]
          /\ ev' = [Ev(0, t, "w_stray", p.pin, WriteValue(t)) EXCEPT !.us = WriteSleep(t)]
    /\ UNCHANGED <<svars, cvars, platform, mem_fd, gpio_bad, ext, inited, wvars, gev, hcalls,
                   pwm_pins, pwm_mutex, gpio_map, fsel, level, pc, call, ncalls>>

TeardownWorker(t) ==
    \/ WorkerTop(t)
    \/ WorkerSkip(t)
    \/ WorkerTest(t)
    \/ WorkerStore(t)
    \/ WorkerStoreUnmapped(t)

TeardownCleanup(c) ==
    \/ inited.gpio = "ok" /\ ncalls >= 1 /\ CleanupUnmap(c)
    \/ CleanupClose(c)

\* the duties the caller writes while the worker runs
TeardownDuties == {50, PWM_DUTY_MAX}
\* no store has killed the process
Running == gpc = "run"

NextTeardown ==
    \/ Running /\ ncalls = 0 /\ CallInit(TeardownCaller, TeardownPin)
    \/ \E d \in TeardownDuties :
          Running /\ ncalls >= 1 /\ Budget /\ CallWrite(TeardownCaller, TeardownPin, d)
    \/ Running /\ ncalls >= 1 /\ Budget /\ CallStop(TeardownCaller, TeardownPin)
    \/ Running /\ TeardownCleanup(TeardownCaller)
    \/ Running /\ CallerStep(TeardownCaller)
    \/ \E t \in Tids : Running /\ TeardownWorker(t)

\* every thread is scheduled fairly
SpecTeardown ==
    /\ Init /\ [][NextTeardown]_vars
    /\ \A t \in Tids : WF_vars(Running /\ TeardownWorker(t))
    /\ WF_vars(Running /\ CallerStep(TeardownCaller))
    /\ WF_vars(Running /\ CleanupClose(TeardownCaller))

TypeOK ==
    /\ pwm_mutex \in {0} \cup Callers
    /\ \A i \in Slots : pwm_pins[i].duty \in Int /\ pwm_pins[i].active \in BOOLEAN
    /\ \A c \in Callers : pc[c] \in {"idle", "init_cs", "write_cs", "stop_cs",
           "stop_join", "stop_wait", "stop_relock", "stop_fin"}

(* ======================================================================= *)
(* Properties                                                              *)
(* ======================================================================= *)

\* the active slots that hold pin
ActiveSlotsOf(pool, pin) == {i \in Slots : pool[i].active /\ pool[i].pin = pin}
\* the live worker threads that drive pin: their slot's pin field is pin
WorkersOn(pool, thr, pin) ==
    {t \in DOMAIN thr : thr[t].st = "live" /\ pool[thr[t].slot].pin = pin}
\* caller c leaves the critical section of pwm_init_freq and returns
InitReturns(c) == pc[c] = "init_cs" /\ pc'[c] = "idle"

\* C1: pwm_init / pwm_init_freq is idempotent per pin.  A pwm_init(p) that
\* finds no active slot for p and whose thread is created returns 0 and leaves
\* exactly one active slot and exactly one worker for p; a pwm_init(p) entered
\* while p is active (no pwm_stop(p) since) returns 0 as well, changes no slot,
\* creates no thread, and still exactly one slot is active for p and exactly
\* one worker drives p.
C1_OnePerPin(p) ==
    /\ Cardinality(ActiveSlotsOf(pwm_pins', p)) = 1
    /\ Cardinality(WorkersOn(pwm_pins', threads', p)) = 1

Min(a, b) == IF a < b THEN a ELSE b
Max(a, b) == IF a > b THEN a ELSE b
\* caller c takes a step
Steps(c) == pc'[c] # pc[c]

\* C2: for every active pin p and every integer d, INT_MIN and INT_MAX
\* included, pwm_write(p, d) leaves p's slot with duty = max(0, min(100, d));
\* the duty of every slot is in [0, 100] in every reachable state.
C2_DutyInRange == \A i \in Slots : pwm_pins[i].duty \in PWM_DUTY_MIN..PWM_DUTY_MAX

C2_WriteClamps ==
    /\ []C2_DutyInRange
    /\ [][\A c \in Callers :
             (pc[c] = "write_cs" /\ Steps(c)
                 /\ ActiveSlotsOf(pwm_pins, call[c].pin) # {})
               => \A i \in ActiveSlotsOf(pwm_pins, call[c].pin) :
                     pwm_pins'[i].duty = Max(0, Min(100, call[c].arg))]_vars

\* pwm_write(p, INT_MAX) has just stored 100 in p's active slot
C2_Witness ==
    /\ ev.act = "write_hit"
    /\ ev.val = INT_MAX
    /\ \E i \in ActiveSlotsOf(pwm_pins, ev.pin) : pwm_pins[i].duty = 100

\* C4: pwm_stop(p) on a pin without an active slot is a no-op: the call
\* returns from its first critical section (it cannot block there and joins
\* nothing), writes no pin level and changes no slot and no worker.
C4_StopMissNoop ==
    /\ [](\A c \in Callers :
             (pc[c] = "stop_cs" /\ ActiveSlotsOf(pwm_pins, call[c].pin) = {})
               => ENABLED StopMiss(c))
    /\ [][\A c \in Callers :
             (pc[c] = "stop_cs" /\ Steps(c)
                 /\ ActiveSlotsOf(pwm_pins, call[c].pin) = {})
               => (/\ pc'[c] = "idle"
                   /\ pwm_mutex' = 0
                   /\ pwm_pins' = pwm_pins
                   /\ threads' = threads
                   /\ level' = level
                   /\ fsel' = fsel)]_vars

\* a pwm_stop(p) has just returned as a no-op for a pin that was stopped
\* before (its freed slot still holds the pin number and the joined handle)
C4_Witness ==
    /\ ev.act = "stop_miss"
    /\ \E i \in Slots : /\ ~pwm_pins[i].active
                         /\ pwm_pins[i].pin = ev.pin
                         /\ pwm_pins[i].thread # NoTid
                         /\ threads[pwm_pins[i].thread].st = "joined"

\* no active slot holds p and no caller is inside pwm_init or pwm_stop for p
Quiescent(p) ==
    /\ ActiveSlotsOf(pwm_pins, p) = {}
    /\ \A c \in Callers : ~LifecycleOn(c, p)

\* C5: quiescence after stop.  When pwm_stop(p) has returned, and until a
\* later pwm_init(p) is entered, p's slot is inactive, no live worker drives
\* p, the level of p is LOW whatever the duty was, and no worker writes p.
C5_QuiescentAfterStop ==
    /\ ev.act = "stop_done" => Quiescent(ev.pin)
    /\ \A p \in Pins :
          Quiescent(p) => /\ LevelOf(p) = LOW
                          /\ WorkersOn(pwm_pins, threads, p) = {}
                          /\ ~(ev.act = "w_write" /\ ev.pin = p)

\* pwm_stop(p) has just returned for a pin that ran at duty 100
C5_Witness ==
    /\ ev.act = "stop_done"
    /\ pwm_pins[ev.val].pin = ev.pin
    /\ pwm_pins[ev.val].duty = 100
    /\ threads[pwm_pins[ev.val].thread].st = "joined"
    /\ LevelOf(ev.pin) = LOW

\* C6: pwm_write(p, d) when no active slot holds p changes nothing, the
\* stale duty of a freed slot that still holds p included.
C6_WriteMissNoop ==
    [][\A c \in Callers :
          (pc[c] = "write_cs" /\ Steps(c)
              /\ ActiveSlotsOf(pwm_pins, call[c].pin) = {})
            => (/\ pc'[c] = "idle"
                /\ pwm_mutex' = 0
                /\ pwm_pins' = pwm_pins
                /\ threads' = threads
                /\ level' = level
                /\ fsel' = fsel)]_vars

\* a pwm_write(p, d) after pwm_stop(p) has just returned: the freed slot still
\* holds p and a duty other than the clamped d
C6_Witness ==
    /\ ev.act = "write_miss"
    /\ \E i \in Slots : /\ ~pwm_pins[i].active
                         /\ pwm_pins[i].pin = ev.pin
                         /\ pwm_pins[i].thread # NoTid
                         /\ pwm_pins[i].duty # Max(0, Min(100, ev.val))

C8_UniqueActivePin ==
    \A i, j \in Slots :
        (i # j /\ pwm_pins[i].active /\ pwm_pins[j].active)
          => pwm_pins[i].pin # pwm_pins[j].pin

\* two slots are active while a caller is inside pwm_init for one of their pins
C8_Witness ==
    /\ Cardinality({i \in Slots : pwm_pins[i].active}) = 2
    /\ \E c \in Callers : pc[c] = "init_cs" /\ ActiveSlotsOf(pwm_pins, call[c].pin) # {}

\* slot i is in its stopping window: pwm_stop has cleared its running flag
\* and its worker is not yet joined
Stopping(i) ==
    /\ pwm_pins[i].thread # NoTid
    /\ ~pwm_pins[i].running
    /\ threads[pwm_pins[i].thread].st \in {"live", "exited"}

LiveWorkers == {t \in DOMAIN threads : threads[t].st = "live"}

\* C9: when no pwm_init(p) overlaps a pwm_stop(p) (two pwm_stop(p) may
\* overlap), every live worker is bound to an active slot and no two live
\* workers share a slot, so at most one worker drives a pin and at most
\* MAX_PWM_PINS workers are alive.
C9_WorkersOwnActiveSlots ==
    /\ \A t \in LiveWorkers : pwm_pins[threads[t].slot].active
    /\ \A t1, t2 \in LiveWorkers : t1 # t2 => threads[t1].slot # threads[t2].slot
    /\ \A p \in Pins : Cardinality(WorkersOn(pwm_pins, threads, p)) <= 1
    /\ Cardinality(LiveWorkers) <= MAX_PWM_PINS

\* every slot of the pool is active
PoolFull(pool) == \A i \in Slots : pool[i].active
FreeSlots(pool) == {i \in Slots : ~pool[i].active}

InJoin(c) == pc[c] \in {"stop_join", "stop_wait"}
\* caller c is inside a critical section of the pool
InCritical(c) == pc[c] \in {"init_cs", "write_cs", "stop_cs", "stop_fin"}

\* C11: pwm_stop does not hold the pool mutex while it waits in join.  A
\* caller inside the join never owns the mutex; whoever owns the mutex is in
\* a critical section whose one step is enabled whatever the workers do;
\* pwm_init and pwm_write leave their critical section straight to the
\* return; and two callers that wait in pwm_stop for different pins wait for
\* different workers, each for the worker of its own pin.
C11_JoinOutsideMutex ==
    /\ [](\A c \in Callers :
             /\ InJoin(c) => pwm_mutex # c
             /\ pwm_mutex = c => (InCritical(c) /\ ENABLED CallerStep(c))
             /\ \A c2 \in Callers \ {c} :
                   (pc[c] = "stop_wait" /\ pc[c2] = "stop_wait"
                       /\ call[c].pin # call[c2].pin)
                     => /\ call[c].jt # call[c2].jt
                        /\ threads[call[c2].jt].slot = call[c2].i
                        /\ pwm_pins[call[c2].i].pin = call[c2].pin)
    /\ [][\A c \in Callers :
             (pc[c] \in {"init_cs", "write_cs"} /\ Steps(c))
               => (pc'[c] = "idle" /\ pwm_mutex' = 0)]_vars

\* while one caller waits in pwm_stop(p) for p's worker, which is still
\* alive, another caller's pwm_stop of another pin has just returned
C11_Witness ==
    /\ ev.act = "stop_done"
    /\ \E c \in Callers \ {ev.c} :
          /\ pc[c] = "stop_wait"
          /\ call[c].pin # ev.pin
          /\ threads[call[c].jt].st = "live"

\* caller c is inside pwm_stop
InStop(c) == call[c].op = "stop"
\* the step is a worker's
WorkerSteps == ev'.c = 0 /\ ev'.t # NoTid

\* C12: with the workers scheduled fairly every pwm_stop returns.  No state
\* is a deadlock: a caller inside a call can step itself, or waits for the
\* mutex while its owner can step, or waits in the join for a live worker
\* that can step; a worker's step never touches the mutex; and a caller that
\* is inside pwm_stop is eventually back from it.
C12_NoDeadlock ==
    \A c \in Callers :
        pc[c] # "idle" =>
            \/ ENABLED CallerStep(c)
            \/ /\ pc[c] = "stop_relock"
               /\ pwm_mutex \in Callers \ {c}
               /\ ENABLED CallerStep(pwm_mutex)
            \/ /\ pc[c] = "stop_wait"
               /\ threads[call[c].jt].st = "live"
               /\ ENABLED WorkerStep(call[c].jt)

ThreadsOf(pool, thr, pin) ==
    {t \in DOMAIN thr : thr[t].st # "unborn" /\ pool[thr[t].slot].pin = pin}

\* C13: pwm_stop(p) followed by pwm_init(p).  When pwm_init(p) spawns its
\* worker, every earlier worker of p has exited and been joined and no slot
\* is active for p; the slot the new worker gets starts active with duty 0
\* and running = true whatever duty it held; and at no time do two live
\* workers drive one pin.
C13_RestartAfterStop ==
    /\ [](\A p \in Pins : Cardinality(WorkersOn(pwm_pins, threads, p)) <= 1)
    /\ [][\A c \in Callers :
             (InitReturns(c) /\ ev'.act = "init_ok")
               => /\ ActiveSlotsOf(pwm_pins, call[c].pin) = {}
                  /\ \A t \in ThreadsOf(pwm_pins, threads, call[c].pin) :
                         threads[t].st = "joined"
                  /\ Cardinality(WorkersOn(pwm_pins', threads', call[c].pin)) = 1
                  /\ \A i \in ActiveSlotsOf(pwm_pins', call[c].pin) :
                         /\ pwm_pins'[i].duty = 0
                         /\ pwm_pins'[i].running
                         /\ threads'[pwm_pins'[i].thread].st = "live"
                         /\ threads'[pwm_pins'[i].thread].slot = i]_vars

\* pwm_init(p) has just restarted p in the slot its joined old worker ran on
\* (no other pin was ever initialised)
C13_Witness ==
    /\ ev.act = "init_ok"
    /\ fsel = {<<ev.pin, 1>>}
    /\ \E i \in ActiveSlotsOf(pwm_pins, ev.pin) :
          /\ threads[pwm_pins[i].thread].st = "live"
          /\ \E t \in DOMAIN threads : /\ threads[t].st = "joined"
                                       /\ threads[t].slot = i

\* the pool after pwm_write(pin, duty) has run on it
AfterWrite(pool, pin, duty) == StoreDuty(pool, pin, PWM_CLAMP_DUTY(duty))

\* C14: pwm_write(p, d) changes the duty of p's active slot and nothing
\* else: no other field of that slot, no other slot, no worker, no pin
\* level or function.  It commutes with a pwm_write on any other pin q: the
\* pool after this write and then the write on q is the pool after the
\* write on q and then this one, and in it each pin's active slot holds its
\* own clamped value.
C14_Commute(p, d1) ==
    \A q \in Pins \ {p} : \A d2 \in DutyInputs :
        LET pq == AfterWrite(pwm_pins', q, d2)
            qp == AfterWrite(AfterWrite(pwm_pins, q, d2), p, d1)
        IN /\ pq = qp
           /\ \A i \in ActiveSlotsOf(pwm_pins, p) : pq[i].duty = Max(0, Min(100, d1))
           /\ \A i \in ActiveSlotsOf(pwm_pins, q) : pq[i].duty = Max(0, Min(100, d2))

C14_WriteOnlyDuty ==
    [][\A c \in Callers :
          (pc[c] = "write_cs" /\ Steps(c))
            => /\ \A i \in Slots :
                     \/ pwm_pins'[i] = pwm_pins[i]
                     \/ /\ i \in ActiveSlotsOf(pwm_pins, call[c].pin)
                        /\ pwm_pins'[i] = [pwm_pins[i] EXCEPT
                                              !.duty = Max(0, Min(100, call[c].arg))]
               /\ threads' = threads
               /\ level' = level
               /\ fsel' = fsel
               /\ C14_Commute(call[c].pin, call[c].arg)]_vars

\* a pwm_write has just stored its value in one pin's slot while the other
\* pin's slot holds a different value written before
C14_Witness ==
    /\ ev.act = "write_hit"
    /\ \E i \in ActiveSlotsOf(pwm_pins, ev.pin) :
       \E j \in Slots :
          /\ pwm_pins[j].active
          /\ pwm_pins[j].pin # ev.pin
          /\ pwm_pins[i].duty = Max(0, Min(100, ev.val))
          /\ pwm_pins[j].duty # 0
          /\ pwm_pins[j].duty # pwm_pins[i].duty

(* ---- simple_timer.h: properties ---- *)
\* the step is a timer_set, a timer_expired
SetStep == tev'.act = "set" /\ clock' = clock
ExpiredStep == tev'.act = "expired" /\ clock' = clock
\* a value below 2^63 as a number of milliseconds
Small(a) == a[1] = 0
\* now + interval in 64 bits, for a clock reading near 0, from the cases of
\* the interval: small, 2^63, 2^64 - 1
Sum64(now, interval) ==
    IF Small(interval) THEN U64(0, now[2] + interval[2])
    ELSE IF interval = U64(1, 0) THEN U64(1, now[2])
    ELSE IF now[2] = 0 THEN UINT64_MAX ELSE U64(0, now[2] - 1)

\* C15: timer_set(t, I) at clock value now leaves interval = I and
\* next_expiry = now + I (the 64-bit sum), whatever the timer held; it reads
\* the clock once, is always able to run and returns.
C15_TimerSet ==
    /\ [](tpc = "idle" => \A I \in IntervalInputs : ENABLED TimerSet(I))
    /\ [][SetStep =>
             /\ timer'.interval = tev'.arg
             /\ timer'.next_expiry = Sum64(clock, tev'.arg)
             /\ tev'.now = clock
             /\ set_at' = clock
             /\ tpc' = "idle"]_vars

\* a timer armed with interval 3 has just been armed again with interval 1,
\* later on the clock
C15_Witness ==
    /\ tev.act = "set"
    /\ tev.old.interval = U64(0, 3)
    /\ timer.interval = U64(0, 1)
    /\ tev.old.next_expiry # timer.next_expiry
    /\ U64Less(U64(0, 0), tev.now)

\* the timer t is as the last timer_set left it: no timer_tick has moved its
\* deadline since
AsArmed(t) ==
    /\ set_at # NeverSet
    /\ t.next_expiry = Sum64(set_at, t.interval)
\* t0 + I as an integer, not reduced modulo 2^64, and a <= b on such integers
ExactSum(t0, I) == <<t0[1] + I[1], t0[2] + I[2]>>
ExactLeq(a, b) == a[1] < b[1] \/ (a[1] = b[1] /\ a[2] <= b[2])

\* C16: for a timer armed by timer_set(t, I) at clock value t0,
\* timer_expired(t) returns true exactly when now >= t0 + I, for every 64-bit
\* I (so false right after arming when I >= 1, true at once when I = 0), and
\* once it has returned true it returns true on every later call as long as
\* the timer is not changed.
C16_ExpiredWhenDue ==
    (tev.act = "expired" /\ AsArmed(tev.old))
      => (tev.ret <=> ExactLeq(ExactSum(set_at, tev.old.interval), tev.now))

C16_ExpiredExact ==
    /\ []C16_ExpiredWhenDue
    /\ [][(tev.act = "expired" /\ tev.ret /\ ExpiredStep) => tev'.ret]_vars

\* C17: timer_expired is a pure query: whatever the timer and the clock, it
\* leaves interval and next_expiry (and everything else) as they were.
C17_ExpiredPure ==
    [][ExpiredStep => (timer' = timer /\ set_at' = set_at /\ tpc' = tpc)]_vars

\* timer_expired has just returned true for an armed timer of interval 2,
\* which is as it was armed
C17_Witness ==
    /\ tev.act = "expired"
    /\ tev.ret
    /\ timer.interval = U64(0, 2)
    /\ AsArmed(timer)
    /\ timer = tev.old

\* the step is the entry of timer_tick: the clock is read and the deadline tested
TickEnterStep == tpc = "idle" /\ tev'.act \in {"tick_enter", "tick_false"} /\ clock' = clock

\* C18: timer_tick on a timer whose deadline is not reached (now <
\* next_expiry) returns false and leaves the timer unchanged.
C18_TickNotDue ==
    [][(TickEnterStep /\ U64Less(clock, timer.next_expiry))
         => (/\ tev'.act = "tick_false"
             /\ ~tev'.ret
             /\ timer' = timer
             /\ tpc' = "idle")]_vars

\* timer_tick has just returned false for a timer armed with interval 3, two
\* milliseconds after it was armed
C18_Witness ==
    /\ tev.act = "tick_false"
    /\ timer.interval = U64(0, 3)
    /\ AsArmed(timer)
    /\ tev.now = U64Add(set_at, U64(0, 2))

Times(k, I) == <<k * I[1], k * I[2]>>
\* floor((now - old) / I) + 1 for old <= now < 2^63 and I >= 1
PeriodsDue(old, now, I) == IF Small(I) THEN (now[2] - old[2]) \div I[2] + 1 ELSE 1

\* C20: phase is preserved.  When timer_tick returns true (interval I >= 1)
\* the new next_expiry is old + k * I with k = floor((now - old) / I) + 1, it
\* is at most now + I, and every deadline an armed timer takes is t0 + n * I
\* for the arming time t0 and some n >= 1.
C20_TickPhase ==
    (tev.act = "tick_true" /\ tev.old.interval # U64(0, 0))
      => /\ timer.next_expiry =
              ExactSum(tev.old.next_expiry,
                       Times(PeriodsDue(tev.old.next_expiry, tev.now, tev.old.interval),
                             tev.old.interval))
         /\ ExactLeq(timer.next_expiry, ExactSum(tev.now, tev.old.interval))

C20_Lattice ==
    (set_at # NeverSet /\ timer.interval # U64(0, 0))
      => \E n \in 1..(MaxClock + 2) :
            timer.next_expiry = ExactSum(set_at, Times(n, timer.interval))

C20_PhasePreserved == C20_TickPhase /\ C20_Lattice

\* C21: a timer_tick on a timer armed with interval 0 terminates: once the
\* call is in its loop it returns true, with next_expiry as it was when the
\* call began.
ZeroArmed == set_at # NeverSet /\ timer.interval = U64(0, 0)

C21_ZeroTickReturns ==
    (tpc = "tick_loop" /\ ZeroArmed)
        ~> (tpc = "idle" /\ tev.act = "tick_true" /\ tev.ret
            /\ timer.next_expiry = tev.old.next_expiry)

\* the loop of a zero-interval timer: the addition has left the deadline
\* where it was, and the loop test holds again
C21_ZeroTickSpins ==
    /\ tpc = "tick_loop"
    /\ ZeroArmed
    /\ tev.act = "tick_add"
    /\ timer = tloc.old
    /\ TickLoopTest(timer, tloc.now)

\* u / 1000 = m
IsThousandth(m, u) == m = W64Div(u, 1000)

\* C23: millis() and micros() never decrease between successive calls, for
\* any non-decreasing sequence of clock readings, the products tv_sec * 1000
\* and tv_sec * 1000000 being computed in the width of time_t; and
\* micros() / 1000 equals millis() for the same reading.
C23_Successive ==
    /\ (seen.millis # NoReading /\ seen'.millis # seen.millis)
          => W64Leq(seen.millis.val, seen'.millis.val)
    /\ (seen.micros # NoReading /\ seen'.micros # seen.micros)
          => W64Leq(seen.micros.val, seen'.micros.val)

C23_SameReading ==
    (seen.millis # NoReading /\ seen.micros # NoReading
       /\ seen.millis.at = seen.micros.at)
      => IsThousandth(seen.millis.val, seen.micros.val)

C23_NeverDecrease == [][C23_Successive]_vars /\ []C23_SameReading


\* the clock read `to` is at least arg units after the clock read `from`, in
\* whole units of 1 / per of a second (sub nanoseconds each), for arg < per
ElapsedAtLeast(from, to, per, sub, arg) ==
    LET secs == to.tv_sec - from.tv_sec
    IN \/ secs >= 2
       \/ secs * per + (to.tv_nsec \div sub) - (from.tv_nsec \div sub) >= arg

InDelay == dpc \in DelayUnits

\* C22: delay_ms(ms) and delay_us(us) return only when the monotonic clock
\* has advanced by at least the requested amount since the call began; with
\* an argument of 0 they return without a pass of the busy wait; they
\* terminate whenever the clock keeps advancing.
C22_AtLeast ==
    /\ cev.act = "delay_ms_ret"
          => ElapsedAtLeast(cev.from, ts, MS_PER_SEC, NS_PER_MS, cev.arg)
    /\ cev.act = "delay_us_ret"
          => ElapsedAtLeast(cev.from, ts, US_PER_SEC, NS_PER_US, cev.arg)

C22_ZeroNoWait == cev'.act = "delay_spin" => cev'.arg # 0

C22_Delay ==
    /\ []C22_AtLeast
    /\ [][C22_ZeroNoWait]_vars
    /\ InDelay ~> dpc = "idle"

\* the last step was a call of the GPIO function act (the circuit did not move)
GpioCalled(act) == gev'.act = act /\ ext' = ext
C24_OutOfRange(pin) == pin < 0 \/ pin > 53
C24_Ignored ==
    /\ fsel' = fsel
    /\ level' = level
    /\ gev'.access = {}
    /\ gev'.out = ""
    /\ gev'.ret = LOW
    /\ gpc' = gpc
C24_FunctionOf(fs, pin) == {e[2] : e \in {x \in fs : x[1] = pin}}
C24_OthersKept(pin) ==
    {e \in fsel' : e[1] # pin} = {e \in fsel : e[1] # pin}
C24_Applied(pin, arg) ==
    /\ GpioCalled("pin_mode") =>
          /\ C24_FunctionOf(fsel', pin) = (IF arg = OUTPUT THEN {OUTPUT} ELSE {})
          /\ C24_OthersKept(pin) /\ level' = level
    /\ GpioCalled("gpio_set_function") =>
          /\ C24_FunctionOf(fsel', pin) = {arg}
          /\ C24_OthersKept(pin) /\ level' = level
    /\ GpioCalled("digital_write") =>
          /\ level' = (IF arg = HIGH THEN level \cup {pin} ELSE level \ {pin})
          /\ fsel' = fsel
    /\ GpioCalled("digital_read") =>
          /\ gev'.ret = (IF <<pin, OUTPUT>> \in fsel
                         THEN (IF pin \in level THEN HIGH ELSE LOW)
                         ELSE (IF pin \in ext THEN HIGH ELSE LOW))
          /\ fsel' = fsel /\ level' = level

\* C24: a call of pin_mode, gpio_set_function, digital_write or digital_read
\* with a pin outside [0, 53] (negative, 54 and above, INT_MIN, INT_MAX)
\* changes no function-select register and no output latch, accesses no
\* register, prints nothing, and (digital_read) returns LOW.  With pin 0 or
\* pin 53 the call is applied: on the Raspberry Pi with the registers mapped,
\* pin_mode and gpio_set_function set that pin's function and no other pin's,
\* digital_write sets or clears that pin's latch, digital_read returns the
\* pin's level; on the host build the call prints its line.
C24_PinRange ==
    [][\A act \in {"pin_mode", "gpio_set_function", "digital_write", "digital_read"} :
          GpioCalled(act) =>
             /\ C24_OutOfRange(gev'.pin) => C24_Ignored
             /\ (gev'.pin \in {0, 53} /\ platform = "RPI" /\ gpio_map /\ ~gpio_bad)
                    => C24_Applied(gev'.pin, gev'.arg)
             /\ (gev'.pin \in {0, 53} /\ platform = "HOST") => gev'.out = "MOCK"]_vars

\* an out-of-range pin_mode has just been ignored while the registers are
\* mapped and hold what calls on pins 0 and 53 put there
C24_Witness ==
    /\ gev.act = "pin_mode" /\ gev.pin = INT_MAX /\ gev.arg = OUTPUT
    /\ gpio_map /\ ~gpio_bad /\ platform = "RPI"
    /\ <<53, ALT5>> \in fsel /\ <<0, OUTPUT>> \in fsel /\ 0 \in level

C25_NoRegister ==
    /\ gev'.access = {}
    /\ fsel' = fsel /\ level' = level /\ pwm_regs' = pwm_regs /\ clk_regs' = clk_regs
    /\ gpc' = gpc

\* C25: outside the initialised window nothing is touched.  A pin_mode,
\* gpio_set_function, digital_write or digital_read made when gpio_init has
\* not been called since the process started or since the last gpio_cleanup
\* accesses no register and changes none, and digital_read returns LOW; so
\* does an hpwm_set made when hpwm_init has not been called since the start
\* or since the last hpwm_stop.  A gpio_cleanup or hpwm_stop made in that
\* situation (no init before it, or the second of two in a row) unmaps
\* nothing, closes nothing and accesses no register.
C25_OutsideWindow ==
    [][/\ \A act \in {"pin_mode", "gpio_set_function", "digital_write", "digital_read"} :
             (GpioCalled(act) /\ inited.gpio = "no") => (C25_NoRegister /\ gev'.ret = LOW)
       /\ (GpioCalled("hpwm_set") /\ inited.hpwm = "no") => C25_NoRegister
       /\ (GpioCalled("gpio_cleanup") /\ inited.gpio = "no")
             => (gev'.rel = {} /\ C25_NoRegister)
       /\ (GpioCalled("hpwm_stop") /\ inited.hpwm = "no")
             => (gev'.rel = {} /\ C25_NoRegister)]_vars

\* hpwm_set on a hardware PWM pin with a positive frequency has just returned
\* after hpwm_stop, with the registers still holding what an earlier hpwm_set
\* wrote while the block was mapped
C25_Witness ==
    /\ gev.act = "hpwm_set" /\ gev.pin = 18 /\ gev.arg = 1000 /\ gev.access = {}
    /\ platform = "RPI" /\ inited.hpwm = "no" /\ pwm_map = "NULL"
    /\ pwm_regs.rng[1] = 1000 /\ <<18, ALT5>> \in fsel

C26_Channel(pin) == IF pin \in {12, 18} THEN 1 ELSE 2
C26_Alt(pin) == IF pin \in {12, 13} THEN 4 ELSE 2
C26_Bits(n) == IF n = 1 THEN {"PWEN1", "MSEN1"} ELSE {"PWEN2", "MSEN2"}
\* whatever the call writes belongs to its pin: the other channel's range,
\* data and control bits and the other pins' functions stay, and the pin's
\* function stays or becomes the pin's alternate function
C26_OnlyItsOwn(pin) ==
    LET o == 3 - C26_Channel(pin)
    IN /\ pwm_regs'.rng[o] = pwm_regs.rng[o]
       /\ pwm_regs'.dat[o] = pwm_regs.dat[o]
       /\ pwm_regs'.ctl \cap C26_Bits(o) = pwm_regs.ctl \cap C26_Bits(o)
       /\ C24_OthersKept(pin)
       /\ C24_FunctionOf(fsel', pin) \in {C24_FunctionOf(fsel, pin), {C26_Alt(pin)}}
\* the call programs the channel of its pin with range 1000000 / freq_hz and
\* a data value of 0, half or all of the range (the duties passed clamp to 0,
\* 500 and 1000), and selects the pin's function where GPIO is mapped
C26_Programs(pin, freq_hz) ==
    LET n == C26_Channel(pin)
        range == 1000000 \div freq_hz
    IN /\ pwm_regs'.rng[n] = range
       /\ pwm_regs'.dat[n] \in {0, range \div 2, range}
       /\ C26_Bits(n) \subseteq pwm_regs'.ctl
       /\ (gpio_map /\ ~gpio_bad) => C24_FunctionOf(fsel', pin) = {C26_Alt(pin)}

\* C26: hpwm_set(pin, freq_hz, duty) changes no PWM register and no GPIO
\* function select, and accesses no register, when freq_hz <= 0 or pin is not
\* one of 12, 13, 18, 19.  With freq_hz > 0 and a pin among those four,
\* whatever it writes is channel 0 for pins 12 and 18 and channel 1 for pins
\* 13 and 19, and the function ALT0 of pin 12 or 13 or ALT5 of pin 18 or 19;
\* with the PWM block mapped, a call that returns has programmed that channel
\* and, where the GPIO block is mapped, selected that function.
C26_HpwmSetArguments ==
    [][GpioCalled("hpwm_set") =>
          /\ (gev'.arg <= 0 \/ gev'.pin \notin {12, 13, 18, 19}) =>
                (pwm_regs' = pwm_regs /\ fsel' = fsel /\ gev'.access = {} /\ gpc' = gpc)
          /\ (gev'.arg > 0 /\ gev'.pin \in {12, 13, 18, 19}) => C26_OnlyItsOwn(gev'.pin)
          /\ (gev'.arg > 0 /\ gev'.pin \in {12, 13, 18, 19} /\ gpc' = "run"
                /\ platform = "RPI" /\ pwm_map = "mapped" /\ clk_map = "mapped")
                => C26_Programs(gev'.pin, gev'.arg)]_vars

\* hpwm_set on pin 17 has just been ignored, after pin 12 programmed channel 0
\* and pin 19 channel 1
C26_Witness ==
    /\ gev.act = "hpwm_set" /\ gev.pin = 17 /\ gev.arg > 0 /\ gev.access = {}
    /\ pwm_map = "mapped" /\ clk_map = "mapped" /\ gpio_map /\ ~gpio_bad
    /\ pwm_regs.rng = <<1000, 20000>> /\ pwm_regs.dat = <<500, 20000>>
    /\ pwm_regs.ctl = {"PWEN1", "MSEN1", "PWEN2", "MSEN2"}
    /\ fsel = {<<12, ALT0>>, <<19, ALT5>>}

\* caller c returns from a pwm_init_freq that has filled slot i
C30_Creates(c, i) ==
    /\ pc[c] = "init_cs" /\ pc'[c] = "idle"
    /\ ~pwm_pins[i].active /\ pwm_pins'[i].active
C30_Period(f) == IF f >= 1 THEN 1000000 \div f ELSE 10000

\* C30: the slot that pwm_init_freq(pin, f) creates holds period_us =
\* floor(1000000 / f) when f >= 1 and 10000 when f <= 0, and no later step
\* changes the period of an active slot; whatever a pwm_init(pin) call does,
\* pwm_init_freq(pin, 100) does, and the reverse.
C30_PeriodFromFreq ==
    [][/\ \A c \in Callers, i \in Slots :
             C30_Creates(c, i) => pwm_pins'[i].period_us = C30_Period(call[c].arg)
       /\ \A i \in Slots :
             (pwm_pins[i].active /\ pwm_pins'[i].active)
                => pwm_pins'[i].period_us = pwm_pins[i].period_us
       /\ \A c \in Callers, pin \in Pins :
             CallInit(c, pin) <=> CallInitFreq(c, pin, 100)]_vars

\* slots exist that were created at 3 Hz: 333333 microseconds
C30_Witness ==
    \E i \in Slots :
       /\ pwm_pins[i].active /\ pwm_pins[i].period_us = 333333
       /\ ev.act = "init_ok"

\* worker t makes the first, or the second, pin write of its cycle
C27_First(t) == threads[t].wpc = "first" /\ threads'[t] # threads[t]
C27_Second(t) == threads[t].wpc = "second" /\ threads'[t] # threads[t]
\* this step wrote value to the worker's pin and slept us after it
C27_Wrote(t, value, us) ==
    /\ ev'.act = "w_write" /\ ev'.t = t
    /\ ev'.val = value /\ ev'.us = us
    /\ ev'.pin = pwm_pins[threads[t].slot].pin
    /\ (ev'.pin \in level') = (value = 1)
C27_On(P, d) == (P * d) \div 100

\* C27: with the duty d and the period P a worker read at the start of its
\* cycle: for d <= 0 the cycle is one write of LOW and a wait of P; for
\* d >= 100 one write of HIGH and a wait of P; otherwise a write of HIGH, a
\* wait of on = floor(P * d / 100), a write of LOW and a wait of P - on, where
\* 0 <= on <= P and P * d does not exceed INT_MAX.  After the last wait the
\* worker is back at the top of its loop.  P is never above 1000000.
C27_Cycle ==
    [][\A t \in Tids :
          LET d == threads[t].d
              P == threads[t].period
          IN /\ (C27_First(t) /\ d <= 0) =>
                    (C27_Wrote(t, 0, P) /\ threads'[t].wpc = "top")
             /\ (C27_First(t) /\ d >= 100) =>
                    (C27_Wrote(t, 1, P) /\ threads'[t].wpc = "top")
             /\ (C27_First(t) /\ 0 < d /\ d < 100) =>
                    /\ P <= INT_MAX \div d
                    /\ C27_On(P, d) >= 0 /\ C27_On(P, d) <= P
                    /\ C27_Wrote(t, 1, C27_On(P, d))
                    /\ threads'[t].wpc = "second"
                    /\ threads'[t].d = d /\ threads'[t].period = P
             /\ C27_Second(t) =>
                    /\ 0 < d /\ d < 100
                    /\ C27_Wrote(t, 0, P - C27_On(P, d))
                    /\ threads'[t].wpc = "top"
             /\ (threads[t].st = "live" /\ threads[t].wpc # "top") =>
                    (P >= 0 /\ P <= 1000000)]_vars

\* a worker at 1 Hz with duty 99 has just written LOW and sleeps the 10000
\* microseconds that 990000 leave of the period
C27_Witness ==
    /\ ev.act = "w_write" /\ ev.val = LOW /\ ev.us = 10000
    /\ \E i \in Slots : pwm_pins[i].active /\ pwm_pins[i].period_us = 1000000
                         /\ pwm_pins[i].duty = 99

\* worker t starts a cycle: it passes the test of running and reads the duty
C28_Starts(t) == threads[t].wpc = "top" /\ threads'[t].wpc = "first"
\* worker t is inside a cycle before and after the step
C28_Inside(t) ==
    /\ threads[t].st = "live" /\ threads[t].wpc \in {"first", "second"}
    /\ threads'[t].wpc \in {"first", "second"}
\* caller c returns from a pwm_write that found the slot i of its pin
C28_WriteReturns(c, i) ==
    /\ pc[c] = "write_cs" /\ pc'[c] = "idle"
    /\ pwm_pins[i].active /\ pwm_pins[i].pin = call[c].pin
C28_Clamped(d) == IF d < 0 THEN 0 ELSE IF d > 100 THEN 100 ELSE d

\* C28: a worker reads the slot's duty once, at the start of a cycle, and
\* both waits of that cycle come from the value read.  While the worker is
\* inside a cycle no step changes the duty it works with, a pwm_write to its
\* pin included; the high time is floor(P * d / 100) and the low time
\* P - floor(P * d / 100) for that same d, whatever the slot holds by then.
\* A pwm_write has stored its clamped duty in the slot when it returns, and a
\* cycle that starts reads the duty the slot holds at that moment.
C28_OneReadPerCycle ==
    [][/\ \A t \in Tids :
             LET d == threads[t].d
                 P == threads[t].period
                 slot == pwm_pins[threads[t].slot]
             IN /\ C28_Starts(t) => threads'[t].d = slot.duty
                /\ C28_Inside(t) => threads'[t].d = d
                /\ (C27_First(t) /\ 0 < d /\ d < 100) => ev'.us = (P * d) \div 100
                /\ C27_Second(t) => ev'.us = P - (P * d) \div 100
       /\ \A c \in Callers, i \in Slots :
             C28_WriteReturns(c, i) => pwm_pins'[i].duty = C28_Clamped(call[c].arg)]_vars

\* a pwm_write(pin, 99) has just returned while the worker is between the two
\* writes of a cycle it began with duty 33
C28_Witness ==
    /\ ev.act = "write_hit"
    /\ \E t \in Tids :
          /\ threads[t].st = "live" /\ threads[t].wpc = "second" /\ threads[t].d = 33
          /\ pwm_pins[threads[t].slot].duty = 99

\* worker t is alive and its slot's running flag is cleared
C29_Stopping(t) == threads[t].st = "live" /\ ~pwm_pins[threads[t].slot].running
\* the pin writes worker t still has to make in the cycle it is in
C29_WritesLeft(thr) ==
    CASE thr.wpc = "first" -> IF 0 < thr.d /\ thr.d < 100 THEN 2 ELSE 1
      [] thr.wpc = "second" -> 1
      [] OTHER -> 0
C29_Safety ==
    \A t \in Tids :
       \* the worker leaves only from the top of the loop, on a cleared flag
       /\ (threads[t].st = "live" /\ threads'[t].st # "live")
             => (threads[t].wpc = "top" /\ C29_Stopping(t))
       /\ C29_Stopping(t) =>
             \* the flag stays cleared while the worker is alive
             /\ threads'[t].st = "live" => ~pwm_pins'[threads[t].slot].running
             \* no cycle starts
             /\ ~C28_Starts(t)
             \* each pin write is one of those the cycle in progress had left
             /\ (ev'.act = "w_write" /\ ev'.t = t /\ threads'[t] # threads[t])
                   => C29_WritesLeft(threads'[t]) = C29_WritesLeft(threads[t]) - 1
             /\ (threads'[t].st = "live" /\ ~(threads'[t] # threads[t] /\ ev'.act = "w_write"))
                   => C29_WritesLeft(threads'[t]) = C29_WritesLeft(threads[t])
             /\ C29_WritesLeft(threads[t]) <= 2

C31_ReinitReturns(c) ==
    /\ pc[c] = "init_cs" /\ pc'[c] = "idle"
    /\ \E i \in Slots : pwm_pins[i].active /\ pwm_pins[i].pin = call[c].pin

\* C31: a pwm_init / pwm_init_freq on a pin that has an active slot returns 0
\* and changes no field of any slot (the duty is not reset, the period is not
\* recomputed from the frequency asked for), creates no thread and touches
\* no GPIO register; and no step at all changes the period_us of a slot that
\* is active, up to and including the step that releases it.
C31_ReinitChangesNothing ==
    [][/\ \A c \in Callers :
             C31_ReinitReturns(c) =>
                /\ pwm_pins' = pwm_pins
                /\ threads' = threads
                /\ fsel' = fsel /\ level' = level
                /\ ev'.val = 0
       /\ \A i \in Slots :
             pwm_pins[i].active => pwm_pins'[i].period_us = pwm_pins[i].period_us]_vars

\* a second initialisation of the pin has just returned; the slot made at
\* 3 Hz still holds 333333 microseconds and the duty 99 written since
C31_Witness ==
    /\ ev.act = "init_already"
    /\ \E i \in Slots : /\ pwm_pins[i].active /\ pwm_pins[i].pin = ev.pin
                         /\ pwm_pins[i].period_us = 333333 /\ pwm_pins[i].duty = 99

\* floor((T - t0) / I) for clock values t0 <= T below 2^63 and I >= 1
WholePeriods(t0, T, I) == IF Small(I) THEN (T[2] - t0[2]) \div I[2] ELSE 0

\* timer_tick has been called, since the timer was armed with I >= 1, so
\* that the arming and the calls are each less than I after the one before
PolledInTime == set_at # NeverSet /\ timer.interval # U64(0, 0) /\ polls.regular

\* C32: drift-free periodic firing.  After timer_set(t, I) at t0 with I >= 1,
\* as long as consecutive calls of timer_tick (the arming counted as the
\* first) are less than I apart, every true return moves next_expiry on by
\* exactly I, and after a call at time T the number of true returns since
\* the arming is floor((T - t0) / I).
C32_DriftFree ==
    /\ [][(PolledInTime /\ tpc = "tick_loop" /\ tpc' = "idle")
             => timer'.next_expiry = U64Add(tloc.old.next_expiry, timer.interval)]_vars
    /\ []((PolledInTime /\ tpc = "idle")
             => polls.trues = WholePeriods(set_at, polls.last, timer.interval))

\* a timer armed with interval UINT64_MAX at a clock value of 1 or more: the
\* first timer_tick, at the clock value of the arming, has returned true
C32_FiresAtOnce ==
    /\ PolledInTime /\ tpc = "idle"
    /\ timer.interval = UINT64_MAX
    /\ polls.last = set_at
    /\ polls.trues = 1

\* C33: timer_tick terminates for every timer with interval >= 1, whatever
\* 64-bit values next_expiry and the clock have: a call that is in its loop
\* leaves it and returns true.
C33_TickTerminates ==
    (tpc = "tick_loop" /\ timer.interval # U64(0, 0)) ~> (tpc = "idle" /\ tev.act = "tick_true")

\* the loop of a timer with interval 2^63: two additions have brought the
\* deadline back to where it was at entry, and the loop test holds again
C33_TickSpins ==
    /\ tpc = "tick_loop"
    /\ timer.interval = U64(1, 0)
    /\ tev.act = "tick_add"
    /\ timer = tloc.old
    /\ TickLoopTest(timer, tloc.now)
    /\ TickLoopTest([timer EXCEPT !.next_expiry = U64Add(timer.next_expiry, timer.interval)],
                    tloc.now)

\* the step is a store of a worker's digital_write
C34_Stores == ev'.act \in {"w_write", "w_fault", "w_stray"} /\ ev' # ev

\* C34: teardown in reverse order works.  With gpio_cleanup called while a
\* worker runs, every digital_write of the worker either stores to its
\* register while the GPIO block is mapped or is skipped, no store goes to
\* the address after the munmap, and a pwm_stop called after the cleanup
\* joins the worker and returns.
C34_ReverseTeardown ==
    /\ [][C34_Stores => (Mapped /\ ev'.act = "w_write")]_vars
    /\ [](gpc = "run")
    /\ (pc[TeardownCaller] = "stop_cs" /\ ~gpio_map)
          ~> (/\ pc[TeardownCaller] = "idle"
              /\ \A t \in Tids : threads[t].st # "live"
              /\ \A i \in Slots : ~pwm_pins[i].active)

\* the worker has tested gpio_map and found it set, and gpio_cleanup has
\* unmapped the block before the worker's store
C34_StoreAfterUnmap ==
    /\ \E t \in Tids : AtStore(t)
    /\ ~Mapped
    /\ gpc = "run"

\* caller c passes a thread handle to pthread_join in this step
C35_Joins(c) == pc[c] = "stop_join" /\ pc'[c] = "stop_wait"
\* the handle th has been passed to pthread_join before: the thread is
\* joined already, or another caller is waiting in pthread_join on it
C35_PassedBefore(c, th) ==
    \/ threads[th].st = "joined"
    \/ \E c2 \in Callers \ {c} : pc[c2] \in {"stop_wait", "stop_relock", "stop_fin"}
                                  /\ call[c2].jt = th
\* caller c finishes a pwm_stop in this step: pin forced LOW, slot released
C35_TearsDown(c) == pc[c] = "stop_fin" /\ pc'[c] = "idle"

\* C35: each worker thread is joined exactly once.  In any interleaving of
\* API calls, two overlapping pwm_stop calls on one pin included, no thread
\* handle is passed to pthread_join a second time, and the teardown of a
\* slot occupancy (pin forced LOW, slot marked inactive) is done by one
\* caller only: the slot it releases is active and still holds the thread
\* that caller joined.
C35_JoinedOnce ==
    [][\A c \in Callers :
          /\ C35_Joins(c) => ~C35_PassedBefore(c, pwm_pins[call[c].i].thread)
          /\ C35_TearsDown(c) => (/\ pwm_pins[call[c].i].active
                                  /\ pwm_pins[call[c].i].thread = call[c].jt)]_vars

\* two callers are in pthread_join on the same thread handle
C35_TwoJoiners ==
    \E c1, c2 \in Callers :
        /\ c1 # c2
        /\ pc[c1] = "stop_wait" /\ pc[c2] = "stop_wait"
        /\ call[c1].jt = call[c2].jt

\* the step is an hpwm_set with a positive frequency on a hardware PWM pin,
\* made on the Raspberry Pi with both blocks mapped, that returns
C36_ValidSet ==
    /\ GpioCalled("hpwm_set")
    /\ gev'.arg > 0 /\ gev'.pin \in {12, 13, 18, 19}
    /\ platform = "RPI" /\ pwm_map = "mapped" /\ clk_map = "mapped"
    /\ gpc' = "run"
\* range and data of the call: 1000000 / freq_hz, and range * duty / 1000
\* for the duty clamped to 0..1000
C36_Range == 1000000 \div gev'.arg
C36_Duty == IF gev'.duty < 0 THEN 0 ELSE IF gev'.duty > 1000 THEN 1000 ELSE gev'.duty
C36_Data == (C36_Range * C36_Duty) \div 1000
\* channel n's range, data, enable bit and mode bit are as before the step
C36_Kept(n) ==
    /\ pwm_regs'.rng[n] = pwm_regs.rng[n]
    /\ pwm_regs'.dat[n] = pwm_regs.dat[n]
    /\ pwm_regs'.ctl \cap C26_Bits(n) = pwm_regs.ctl \cap C26_Bits(n)
C36_Enable(n) == IF n = 1 THEN "PWEN1" ELSE "PWEN2"
\* stores are the stores of a call on channel n and during the registers
\* before and after each: range and data are stored to channel n's
\* registers while its enable bit is clear
C36_WhileDisabled(n, stores, during) ==
    /\ \A k \in 1..4 :
          stores[k].reg \in {"PWM_RNG", "PWM_DAT"}
             => (stores[k].n = n /\ C36_Enable(n) \notin during[k].ctl)
    /\ \E k \in 1..4 : stores[k].reg = "PWM_RNG"
    /\ \E k \in 1..4 : stores[k].reg = "PWM_DAT"

\* C36: hardware PWM channels are independent.  An hpwm_set on pin 12 or 18
\* leaves the range, data, enable bit and mode bit of channel 1 as they
\* were, one on pin 13 or 19 those of channel 0; a call that is not a valid
\* call for a channel leaves that channel's range and data alone, and a
\* valid call on either pin of a channel leaves the channel holding the
\* call's range and data, stored while the channel's enable bit was clear,
\* with the enable and mark-space bits set after them.
C36_ChannelsIndependent ==
    [][GpioCalled("hpwm_set") =>
          /\ gev'.pin \in {12, 18} => C36_Kept(2)
          /\ gev'.pin \in {13, 19} => C36_Kept(1)
          /\ (gev'.arg <= 0 \/ gev'.pin \notin {12, 13, 18, 19})
                => (C36_Kept(1) /\ C36_Kept(2))
          /\ C36_ValidSet =>
                LET n == C26_Channel(gev'.pin)
                    range == C36_Range
                    data == C36_Data
                    stores == HpwmStores(n - 1, range, data)
                    during == HpwmDuring(pwm_regs, stores)
                IN /\ pwm_regs'.rng[n] = range
                   /\ pwm_regs'.dat[n] = data
                   /\ C26_Bits(n) \subseteq pwm_regs'.ctl
                   /\ pwm_regs' = during[5]
                   /\ C36_WhileDisabled(n, stores, during)]_vars

\* pin 18 has just been set at 50 Hz and duty 500 after pin 12 had channel 0
\* at 1000 Hz: channel 0 holds pin 18's values, channel 1 those pin 19 left
C36_Witness ==
    /\ gev.act = "hpwm_set" /\ gev.pin = 18 /\ gev.arg = 50 /\ gev.duty = 500
    /\ pwm_regs.rng = <<20000, 1000>> /\ pwm_regs.dat = <<10000, 1000>>
    /\ pwm_regs.ctl = {"PWEN1", "MSEN1", "PWEN2", "MSEN2"}
    /\ {<<12, ALT0>>, <<18, ALT5>>, <<19, ALT5>>} \subseteq fsel

\* the positions between a lock and the unlock that follows it
C37_CriticalSections == {"init_cs", "write_cs", "stop_cs", "stop_fin"}
C37_Inside(c) == pc[c] \in C37_CriticalSections

\* C37: every return path of pwm_init_freq, pwm_write and pwm_stop releases
\* the pool mutex.  When no API call is in progress the mutex is free; a
\* caller that is outside a call, or in pwm_stop between its unlock and its
\* second lock, does not hold it, so no caller returns holding it and none
\* locks it while holding it; a caller inside a critical section holds it,
\* and at most one caller is inside one; the mutex is taken only when free,
\* and only the holder releases it.
C37_MutexReleased ==
    /\ []((\A c \in Callers : pc[c] = "idle") => pwm_mutex = 0)
    /\ [](\A c \in Callers : C37_Inside(c) <=> pwm_mutex = c)
    /\ [](Cardinality({c \in Callers : C37_Inside(c)}) <= 1)
    /\ [][/\ \A c \in Callers :
               (pc[c] # "idle" /\ pc'[c] = "idle") => (pwm_mutex = c /\ pwm_mutex' = 0)
          /\ pwm_mutex' # pwm_mutex
               => \/ pwm_mutex = 0 /\ pwm_mutex' \in Callers /\ ~C37_Inside(pwm_mutex')
                  \/ pwm_mutex \in Callers /\ pwm_mutex' = 0 /\ pc'[pwm_mutex] # pc[pwm_mutex]]_vars

\* a pwm_write has just returned on its path after the loop (no active slot
\* for the pin) while the other caller is in a pwm_stop, waiting to lock
\* again after its join: the mutex is free
C37_Witness ==
    /\ ev.act = "write_miss"
    /\ pwm_mutex = 0
    /\ \E c \in Callers : pc[c] = "stop_relock" /\ c # ev.c

\* the call reaches no register and no memory through a pointer, and returns
C38_NoAccess == gev'.access = {} /\ gpc' = gpc

\* C38: a failed initialisation leaves the module uninitialised.  After a
\* gpio_init that returned -1, a pin_mode, digital_write or digital_read
\* accesses no memory through the GPIO mapping, and a gpio_cleanup unmaps
\* nothing and does not close the descriptor again; after an hpwm_init that
\* returned -1, an hpwm_set accesses no register and an hpwm_stop accesses
\* none and releases nothing that was released before.
C38_FailedInitUninitialised ==
    [][/\ \A act \in {"pin_mode", "digital_write", "digital_read"} :
             (GpioCalled(act) /\ inited.gpio = "failed") => C38_NoAccess
       /\ (GpioCalled("gpio_cleanup") /\ inited.gpio = "failed")
             => (/\ C38_NoAccess
                 /\ gev'.rel \cap {"munmap", "munmap_MAP_FAILED", "close_again"} = {})
       /\ (GpioCalled("hpwm_set") /\ inited.hpwm = "failed") => C38_NoAccess
       /\ (GpioCalled("hpwm_stop") /\ inited.hpwm = "failed")
             => (/\ C38_NoAccess
                 /\ gev'.rel \cap {"munmap_pwm_again", "munmap_MAP_FAILED",
                                   "close_again"} = {})]_vars

\* gpio_init has failed in mmap, the first call since the process started:
\* gpio_map holds MAP_FAILED and mem_fd the number of the closed descriptor
C38_LeftBehind ==
    /\ gev.act = "gpio_init" /\ gev.ret = -1
    /\ inited.gpio = "failed"
    /\ gpio_map /\ gpio_bad
    /\ mem_fd = "stale"
    /\ hcalls = 1

====
